---- MODULE Spec2Model ----
(***************************************************************************)
(* Work-log registration pipeline of Farm_AIagent3 (src/src/agri_ai):      *)
(* extraction -> confidence scoring -> master-data validation -> strategy  *)
(* selection and execution, for one submission.                            *)
(*                                                                         *)
(* Texts are sequences of characters; a character is a short ASCII name:   *)
(* ASCII characters stand for themselves ("A", "1", "/"), "h_xx" is the    *)
(* hiragana xx, "k_xx" the katakana xx and "j_xx" a kanji.  None and the   *)
(* empty string are both the empty sequence (the code only tests these     *)
(* values for truthiness).  An optional number is <<>> or <<n>>.           *)
(* Scores are integers in units of 1/10000.                                *)
(***************************************************************************)
EXTENDS Integers, Sequences, FiniteSets, TLC

VARIABLES
    pc,                 \* position of register_work_log
    validator,          \* which WorkLogValidator the service provider hands out
    message,            \* raw message of the submission
    user_id,            \* submitter
    extracted_info,     \* ExtractedWorkInfo
    validation_result,  \* WorkLogValidationResult
    work_logs,          \* the work_logs collection (sequence of inserted records)
    called,             \* strategies execute_best_strategy executed, in call order
    delegated,          \* strategies executed by delegation from inside a strategy
    analyze_calls,      \* number of analyze_context calls of the submission
    faults,             \* failures of external calls met while handling the submission
    result,             \* value returned by register_work_log
    strategy_context,   \* ordered strategy list of the agent's RegistrationStrategyContext
    retry_pc,           \* position of an async_retry wrapper: idle, attempt, sleeping, returned, raised
    retry_policy,       \* the wrapper's max_retries, delay, backoff and jitter
    attempt,            \* loop variable of the wrapper
    invocations,        \* outcome of each call of the wrapped operation, in order
    waits,              \* the wrapper's sleeps, in microseconds, in order
    user_choice,        \* choice passed to confirm_and_register ("" before the call)
    confirm_result,     \* value returned by confirm_and_register
    now,                \* time.time(), in seconds
    dataset,            \* the reference collection read: fields, crops or materials
    cache,              \* the resolver's <dataset>_cache (<<>> is None)
    cache_time,         \* the resolver's <dataset>_cache_time
    storage,            \* content of the collection in the database
    readers,            \* calls of the resolver's or the gateway's read, one per task
    gateway_loaded,     \* last successful read through the gateway: start time, content
    inference_map,      \* missing_info_inference of the analysis handed to the inferred registration
    updated_data,       \* record the inferred registration hands to the automatic strategy
    match_call          \* one reference lookup: the name, the master list and what the matchers return

pipeline_vars == <<pc, validator, message, user_id, extracted_info, validation_result,
                   work_logs, called, delegated, analyze_calls, faults, result,
                   strategy_context>>

retry_vars == <<retry_pc, retry_policy, attempt, invocations, waits>>

confirm_vars == <<user_choice, confirm_result>>

cache_vars == <<now, dataset, cache, cache_time, storage, readers, gateway_loaded>>

infer_vars == <<inference_map, updated_data>>

match_vars == <<match_call>>

vars == <<pipeline_vars, retry_vars, confirm_vars, cache_vars, infer_vars, match_vars>>

\* what the steps of the pipeline, and of a retry wrapper, leave alone
outside_pipeline == <<retry_vars, confirm_vars, cache_vars, infer_vars, match_vars>>
outside_retry == <<pipeline_vars, confirm_vars, cache_vars, infer_vars, match_vars>>
outside_cache == <<pipeline_vars, retry_vars, confirm_vars, infer_vars, match_vars>>

None == <<>>

(***************************************************************************)
(* Sequence helpers (Python str / list operations)                         *)
(***************************************************************************)
Min2(a, b) == IF a <= b THEN a ELSE b
Max2(a, b) == IF a >= b THEN a ELSE b

\* s[i:i+len(p)] == p
MatchAt(s, p, i) ==
    /\ i >= 1
    /\ i + Len(p) - 1 <= Len(s)
    /\ \A k \in 1..Len(p) : s[i + k - 1] = p[k]

\* p in s
Contains(s, p) == \E i \in 1..(Len(s) + 1) : MatchAt(s, p, i)

\* any(c in s for c in set)
ContainsAnyChar(s, set) == \E i \in 1..Len(s) : s[i] \in set

Whitespace == {" "}

RECURSIVE LStrip(_)
LStrip(s) == IF s # <<>> /\ Head(s) \in Whitespace THEN LStrip(Tail(s)) ELSE s

RECURSIVE RStrip(_)
RStrip(s) ==
    IF s # <<>> /\ s[Len(s)] \in Whitespace THEN RStrip(SubSeq(s, 1, Len(s) - 1)) ELSE s

\* str.strip()
Strip(s) == RStrip(LStrip(s))

RECURSIVE SumSeq(_)
SumSeq(s) == IF s = <<>> THEN 0 ELSE Head(s) + SumSeq(Tail(s))

(***************************************************************************)
(* Character classes used by the regular expressions of the scorer         *)
(***************************************************************************)
Digits == {"0", "1", "2", "3", "4", "5", "6", "7", "8", "9"}
\* the ASCII capitals of the model and their lower case
LowerOf == [A |-> "a", B |-> "b", T |-> "t", X |-> "x", Z |-> "z", L |-> "l"]
AsciiLetters == DOMAIN LowerOf \cup {LowerOf[c] : c \in DOMAIN LowerOf}
                \cup {"m", "k", "g"}
AsciiAlnum == AsciiLetters \cup Digits
\* the hiragana of the model and their katakana (ord(c) + ord('ア') - ord('あ'))
KatakanaOf ==
    [h_to |-> "k_to", h_ma |-> "k_ma", h_sa |-> "k_sa", h_ki |-> "k_ki",
     h_no |-> "k_no", h_u |-> "k_u", h_o |-> "k_o", h_i |-> "k_i", h_yo |-> "k_yo",
     h_ri |-> "k_ri", h_ji |-> "k_ji", h_ya |-> "k_ya", h_ga |-> "k_ga",
     h_mo |-> "k_mo", h_ne |-> "k_ne", h_gi |-> "k_gi", h_ho |-> "k_ho",
     h_re |-> "k_re", h_n |-> "k_n"]
Hiragana == DOMAIN KatakanaOf

(***************************************************************************)
(* WorkInfoScorer (domain/work_info_scorer.py).  Evaluators return         *)
(* hundredths, weights are hundredths, the score is in 1/10000.            *)
(***************************************************************************)
score_weights ==
    [work_date |-> 15, field_name |-> 20, crop_name |-> 15, work_category |-> 15,
     materials |-> 20, quantity |-> 10, specificity |-> 5]

\* r"\d+日前"
DaysAgoPattern(s) ==
    \E i \in 1..Len(s) : s[i] \in Digits /\ MatchAt(s, <<"j_hi", "j_mae">>, i + 1)

\* r"\d{4}-\d{2}-\d{2}"
IsoDatePattern(s) ==
    \E i \in 1..Len(s) :
        /\ i + 9 <= Len(s)
        /\ \A k \in {0, 1, 2, 3, 5, 6, 8, 9} : s[i + k] \in Digits
        /\ s[i + 4] = "-" /\ s[i + 7] = "-"

\* r"\d{1,2}/\d{1,2}"
SlashDatePattern(s) ==
    \E i \in 1..Len(s) :
        i + 2 <= Len(s) /\ s[i] \in Digits /\ s[i + 1] = "/" /\ s[i + 2] \in Digits

\* r"\d{1,2}月\d{1,2}日"
MonthDayPattern(s) ==
    \E i \in 1..Len(s) : \E n \in {1, 2} :
        /\ i + 2 + n <= Len(s)
        /\ s[i] \in Digits /\ s[i + 1] = "j_gatsu"
        /\ \A k \in 1..n : s[i + 1 + k] \in Digits
        /\ s[i + 2 + n] = "j_hi"

_evaluate_work_date(work_date) ==
    IF work_date = <<>> THEN 0
    ELSE IF \/ Contains(work_date, <<"j_kon", "j_hi">>)
            \/ Contains(work_date, <<"j_saku", "j_hi">>)
            \/ Contains(work_date, <<"j_ichi", "j_saku", "j_hi">>)
            \/ DaysAgoPattern(work_date)
            \/ Contains(work_date, <<"j_sen", "j_shuu">>)
            \/ Contains(work_date, <<"j_kon", "j_shuu">>)
         THEN 90
    ELSE IF IsoDatePattern(work_date) \/ SlashDatePattern(work_date)
            \/ MonthDayPattern(work_date)
         THEN 100
    ELSE IF ContainsAnyChar(work_date, {"j_hi", "j_gatsu", "j_shuu"}) THEN 60
    ELSE 30

\* r"[A-Za-z0-9]+[畑圃場]", r"[あ-ん]+[ハウス]", r"[0-9]+[号棟]"
SpecificFieldPattern(s) ==
    \E i \in 1..(Len(s) - 1) :
        \/ s[i] \in AsciiAlnum /\ s[i + 1] \in {"j_hatake", "j_ho", "j_jou"}
        \/ s[i] \in Hiragana /\ s[i + 1] \in {"k_ha", "k_u", "k_su"}
        \/ s[i] \in Digits /\ s[i + 1] \in {"j_gou", "j_tou"}

_evaluate_field_name(field_name) ==
    IF field_name = <<>> THEN 0
    ELSE LET name == Strip(field_name) IN
         IF SpecificFieldPattern(name) THEN 100
         ELSE IF \/ Contains(name, <<"j_hatake">>)
                 \/ Contains(name, <<"j_ta">>)
                 \/ Contains(name, <<"j_ho", "j_jou">>)
                 \/ Contains(name, <<"k_ha", "k_u", "k_su">>)
                 \/ Contains(name, <<"j_on", "j_shitsu">>)
              THEN 80
         ELSE IF Len(name) >= 2 THEN 50
         ELSE 20

common_crops ==
    { <<"k_to", "k_ma", "k_to">>,                  \* tomato
      <<"k_ki", "k_yu", "k_u", "k_ri">>,           \* kyuuri
      <<"k_na", "k_su">>,                          \* nasu
      <<"k_pi", "k_bar", "k_ma", "k_n">>,          \* piiman
      <<"k_i", "k_chi", "k_go">>,                  \* ichigo
      <<"k_re", "k_ta", "k_su">>,                  \* retasu
      <<"k_kya", "k_be", "k_tsu">>,                \* kyabetsu
      <<"j_haku", "j_sai">>,                       \* hakusai
      <<"j_dai", "j_kon_root">>,                   \* daikon
      <<"j_nin", "j_jin">>,                        \* ninjin
      <<"h_ji", "h_ya", "h_ga", "h_i", "h_mo">>,   \* jagaimo
      <<"j_tama", "h_ne", "h_gi">>,                \* tamanegi
      <<"h_ne", "h_gi">>,                          \* negi
      <<"h_ho", "h_u", "h_re", "h_n", "j_sou">> }  \* hourensou

\* str.isdigit()
IsDigitString(s) == s # <<>> /\ \A i \in 1..Len(s) : s[i] \in Digits

_evaluate_crop_name(crop_name) ==
    IF crop_name = <<>> THEN 0
    ELSE LET name == Strip(crop_name) IN
         IF name \in common_crops THEN 100
         ELSE IF \E crop \in common_crops : Contains(name, crop) \/ Contains(crop, name)
              THEN 80
         ELSE IF Len(name) >= 2 /\ ~IsDigitString(name) THEN 60
         ELSE 30

\* work categories are whole words of the model: the closed set of the
\* ExtractedWorkInfo schema, plus free-text categories the LLM tool may return
standard_categories == {"bojo", "sehi", "shukaku", "saibai", "kanri"}
SchemaCategories == standard_categories \cup {"sonota"}
\* free-text categories that contain one of the scorer's related keywords
KeywordCategories == {"nouyaku_sanpu", "tsuihi"}
\* number of characters of a free-text category of the model
CategoryLen(c) ==
    CASE c = "sonota" -> 3
      [] c = "nouyaku_sanpu" -> 4
      [] c = "tsuihi" -> 2
      [] OTHER -> 2

_evaluate_work_category(work_category) ==
    IF work_category = <<>> THEN 0
    ELSE LET c == work_category[1] IN
         IF c \in standard_categories THEN 100
         ELSE IF c \in KeywordCategories THEN 80
         ELSE IF CategoryLen(c) >= 2 THEN 50
         ELSE 20

\* r"[A-Za-z0-9]+.*[0-9]+"
ProductNamePattern(s) ==
    \E i \in 1..Len(s) : \E j \in 1..Len(s) :
        i < j /\ s[i] \in AsciiAlnum /\ s[j] \in Digits

MaterialScore(material) ==
    LET m == Strip(material) IN
    IF ProductNamePattern(m) THEN 100
    ELSE IF ContainsAnyChar(m, {"j_zai", "j_eki", "j_kona", "j_tsubu"}) THEN 80
    ELSE IF Len(m) >= 3 THEN 60
    ELSE 30

\* total_score of _evaluate_materials, in hundredths
MaterialsTotal(materials) ==
    SumSeq([i \in 1..Len(materials) |-> MaterialScore(materials[i])])

common_units == { <<"L">>, <<"m", "l">>, <<"k", "g">>, <<"g">>,
                  <<"j_fukuro">>, <<"j_hon">>, <<"j_kai">> }

_evaluate_quantity(quantity, unit) ==
    LET q == IF quantity # <<>> /\ quantity[1] > 0 THEN 60 ELSE 0
        u == IF unit = <<>> THEN 0
             ELSE IF unit \in common_units THEN 40
             ELSE 20
    IN Min2(100, q + u)

\* specificity_indicators, in halves
SpecificityIndicators(d) ==
    LET one(v) == IF v # <<>> THEN 2 ELSE 0
        text(v) == IF v # <<>> /\ Strip(v) # <<>> THEN 2 ELSE 0
    IN text(d.work_date) + text(d.field_name) + text(d.crop_name)
       + one(d.work_category) + one(d.materials)
       + (IF d.notes # <<>> THEN 1 ELSE 0)
       + (IF d.work_count # <<>> /\ d.work_count[1] # 0 THEN 1 ELSE 0)

_evaluate_specificity(d) == Min2(100, SpecificityIndicators(d) * 10)

\* materials term: min(1.0, total / len) * weight, floored to 1/10000
MaterialsTerm(materials) ==
    IF materials = <<>> THEN 0
    ELSE Min2(100 * score_weights.materials,
              (MaterialsTotal(materials) * score_weights.materials) \div Len(materials))

\* a scorer that adds the item scores without their weights and does not
\* clamp the sum
calculate_confidence_score_Unweighted(d) ==
    ( _evaluate_work_date(d.work_date)
    + _evaluate_field_name(d.field_name)
    + _evaluate_crop_name(d.crop_name)
    + _evaluate_work_category(d.work_category)
    + _evaluate_quantity(d.quantity, d.unit)
    + _evaluate_specificity(d) ) * 100

\* a scorer that gives no credit for the field and crop names
calculate_confidence_score_NoNames(d) ==
    LET score ==
          _evaluate_work_date(d.work_date) * score_weights.work_date
        + _evaluate_work_category(d.work_category) * score_weights.work_category
        + MaterialsTerm(d.materials)
        + _evaluate_quantity(d.quantity, d.unit) * score_weights.quantity
        + _evaluate_specificity(d) * score_weights.specificity
    IN Max2(0, Min2(10000, score))

calculate_confidence_score(d) ==
    LET score ==
          _evaluate_work_date(d.work_date) * score_weights.work_date
        + _evaluate_field_name(d.field_name) * score_weights.field_name
        + _evaluate_crop_name(d.crop_name) * score_weights.crop_name
        + _evaluate_work_category(d.work_category) * score_weights.work_category
        + MaterialsTerm(d.materials)
        + _evaluate_quantity(d.quantity, d.unit) * score_weights.quantity
        + _evaluate_specificity(d) * score_weights.specificity
    IN Max2(0, Min2(10000, score))

(***************************************************************************)
(* Exact fractions for match confidences (Python floats in the code)       *)
(***************************************************************************)
RECURSIVE Gcd(_, _)
Gcd(a, b) == IF b = 0 THEN a ELSE Gcd(b, a % b)

Frac(n, d) == IF n = 0 THEN [n |-> 0, d |-> 1]
              ELSE [n |-> n \div Gcd(n, d), d |-> d \div Gcd(n, d)]
FracLt(x, y) == x.n * y.d < y.n * x.d
FracLe(x, y) == x.n * y.d <= y.n * x.d
FracMax(x, y) == IF FracLt(x, y) THEN y ELSE x
FracMin(x, y) == IF FracLt(y, x) THEN y ELSE x
FracAdd(x, y) == Frac(x.n * y.d + y.n * x.d, x.d * y.d)
FracSub(x, y) == [n |-> x.n * y.d - y.n * x.d, d |-> x.d * y.d]
Zero == Frac(0, 1)
One == Frac(1, 1)

(***************************************************************************)
(* difflib.SequenceMatcher(None, a, b).ratio(): 2 * M / T, where M counts   *)
(* the characters of the matching blocks found by repeatedly taking the    *)
(* longest common block (earliest in a, then earliest in b) and recursing  *)
(* to its left and to its right.                                           *)
(***************************************************************************)
RECURSIVE MatchingChars(_, _)
MatchingChars(a, b) ==
    IF a = <<>> \/ b = <<>> THEN 0
    ELSE LET blocks == { t \in (1..Len(a)) \X (1..Len(b)) \X (1..Min2(Len(a), Len(b))) :
                            /\ t[1] + t[3] - 1 <= Len(a)
                            /\ t[2] + t[3] - 1 <= Len(b)
                            /\ \A n \in 0..(t[3] - 1) : a[t[1] + n] = b[t[2] + n] }
         IN IF blocks = {} THEN 0
            ELSE LET best == CHOOSE t \in blocks : \A u \in blocks :
                                \/ t[3] > u[3]
                                \/ t[3] = u[3] /\ t[1] < u[1]
                                \/ t[3] = u[3] /\ t[1] = u[1] /\ t[2] <= u[2]
                 IN best[3]
                    + MatchingChars(SubSeq(a, 1, best[1] - 1), SubSeq(b, 1, best[2] - 1))
                    + MatchingChars(SubSeq(a, best[1] + best[3], Len(a)),
                                    SubSeq(b, best[2] + best[3], Len(b)))

SequenceMatcherRatio(a, b) ==
    IF Len(a) + Len(b) = 0 THEN One
    ELSE Frac(2 * MatchingChars(a, b), Len(a) + Len(b))

(***************************************************************************)
(* Master data (collections fields, crops, materials).  A document carries *)
(* its id and name under both key spellings the code reads ("_id"/"name"   *)
(* in the resolver, "field_id"/"field_name" in the matcher).               *)
(***************************************************************************)
fields_master ==
    << [id |-> "F1", name |-> <<"A", "j_hatake">>, field_code |-> <<"T", "1">>],
       [id |-> "F2", name |-> <<"B", "j_hatake">>, field_code |-> <<"T", "2">>] >>

crops_master ==
    << [id |-> "C1", name |-> <<"k_to", "k_ma", "k_to">>, scientific_name |-> <<>>,
        aliases |-> <<>>, varieties |-> <<>>] >>

materials_master ==
    << [id |-> "M1", name |-> <<"Z", "1">>, product_name |-> <<>>, brand_name |-> <<>>,
        active_ingredients |-> <<>>, aliases |-> <<>>] >>

\* indices of a sequence satisfying a test, and the first of a set of indices
Indices(seq, Test(_)) == {i \in 1..Len(seq) : Test(seq[i])}
First(S) == CHOOSE i \in S : \A j \in S : i <= j
\* max(items, key=score): the first index of S with the greatest score
ArgMax(S, score(_)) ==
    CHOOSE i \in S : \A j \in S :
        FracLt(score(j), score(i)) \/ (~FracLt(score(i), score(j)) /\ i <= j)

\* result of a resolver stage
Resolved(doc, confidence, method) ==
    [id |-> doc.id, name |-> doc.name, confidence |-> confidence, method |-> method]
Unresolved(text, method) ==
    [id |-> "", name |-> text, confidence |-> Zero, method |-> method]

\* score of the partial-match stage
PartialScore(text, name) ==
    FracMax(IF name # <<>> THEN Frac(Len(text), Len(name)) ELSE Zero,
            IF text # <<>> THEN Frac(Len(name), Len(text)) ELSE Zero)

\* stages 2 and 3 shared by the three resolvers; partial(doc) is the
\* substring test of the entity kind
PartialThenFuzzy(text, data, partial(_)) ==
    LET partial_matches == Indices(data, partial)
        score(i) == PartialScore(text, data[i].name)
        similarity(i) == SequenceMatcherRatio(text, data[i].name)
        fuzzy_matches == {i \in 1..Len(data) :
                             data[i].name # <<>> /\ FracLt(Frac(6, 10), similarity(i))}
    IN IF partial_matches # {}
       THEN LET best == ArgMax(partial_matches, score)
            IN Resolved(data[best], FracMin(score(best), Frac(8, 10)), "partial_match")
       ELSE IF fuzzy_matches # {}
       THEN LET best == ArgMax(fuzzy_matches, similarity)
            IN Resolved(data[best], similarity(best), "fuzzy_match")
       ELSE Unresolved(text, "no_match")

_multi_stage_field_matching(field_text, fields_data) ==
    LET exact(f) == f.name = field_text \/ f.field_code = field_text
        partial(f) == \/ Contains(f.name, field_text) \/ Contains(field_text, f.name)
                      \/ Contains(f.field_code, field_text)
                      \/ Contains(field_text, f.field_code)
    IN IF Indices(fields_data, exact) # {}
       THEN Resolved(fields_data[First(Indices(fields_data, exact))], One, "exact_match")
       ELSE PartialThenFuzzy(field_text, fields_data, partial)

_multi_stage_crop_matching(crop_text, crops_data) ==
    LET variety(c) == \E v \in 1..Len(c.varieties) : c.varieties[v] = crop_text
        exact(c) == c.name = crop_text \/ variety(c)
        partial(c) == Contains(c.name, crop_text) \/ Contains(crop_text, c.name)
    IN IF Indices(crops_data, exact) # {}
       THEN LET c == crops_data[First(Indices(crops_data, exact))]
            IN Resolved(c, One, IF c.name = crop_text THEN "exact_match"
                                ELSE "variety_match")
       ELSE PartialThenFuzzy(crop_text, crops_data, partial)

_multi_stage_material_matching(material_text, materials_data) ==
    LET alias(m) == \E a \in 1..Len(m.aliases) : m.aliases[a] = material_text
        exact(m) == m.name = material_text \/ alias(m)
        partial(m) == Contains(m.name, material_text) \/ Contains(material_text, m.name)
    IN IF Indices(materials_data, exact) # {}
       THEN LET m == materials_data[First(Indices(materials_data, exact))]
            IN Resolved(m, One, IF m.name = material_text THEN "exact_match"
                                ELSE "alias_match")
       ELSE PartialThenFuzzy(material_text, materials_data, partial)

\* resolve_*_data: db_ok is whether the read of the collection succeeds; a
\* failure is caught and reported as an unresolved name
resolve_field_data(field_text, db_ok) ==
    IF db_ok THEN _multi_stage_field_matching(field_text, fields_master)
    ELSE Unresolved(field_text, "error")

resolve_crop_data(crop_text, db_ok) ==
    IF db_ok THEN _multi_stage_crop_matching(crop_text, crops_master)
    ELSE Unresolved(crop_text, "error")

resolve_material_data(material_text, db_ok) ==
    IF db_ok THEN _multi_stage_material_matching(material_text, materials_master)
    ELSE Unresolved(material_text, "error")

(***************************************************************************)
(* WorkLogExtractor (services/work_log_extractor.py)                       *)
(***************************************************************************)
\* ExtractedWorkInfo() with every field at its default
EmptyWorkInfo ==
    [work_date |-> <<>>, field_name |-> <<>>, crop_name |-> <<>>,
     work_category |-> <<>>, materials |-> <<>>, quantity |-> <<>>, unit |-> <<>>,
     work_count |-> <<>>, notes |-> <<>>, confidence_score |-> 0]

ContainsAny(s, keywords) == \E k \in keywords : Contains(s, k)

\* r"(\d+)日前" -> r"\1日前": the replacement template itself is stored
DaysAgoTemplate == <<"\\", "1", "j_hi", "j_mae">>

FallbackWorkDate(msg) ==
    IF ContainsAny(msg, {<<"j_saku", "j_hi">>, <<"h_ki", "h_no", "h_u">>})
    THEN <<"j_saku", "j_hi">>
    ELSE IF ContainsAny(msg, {<<"j_ichi", "j_saku", "j_hi">>,
                              <<"h_o", "h_to", "h_to", "h_i">>})
    THEN <<"j_ichi", "j_saku", "j_hi">>
    ELSE IF ContainsAny(msg, {<<"j_kon", "j_hi">>, <<"h_ki", "h_yo", "h_u">>})
    THEN <<"j_kon", "j_hi">>
    ELSE IF DaysAgoPattern(msg) THEN DaysAgoTemplate
    ELSE <<>>

FallbackWorkCategory(msg) ==
    IF ContainsAny(msg, {<<"j_bou", "j_jo">>, <<"j_nou", "j_yaku">>, <<"j_san", "j_pu">>,
                         <<"j_satsu", "j_kin">>, <<"j_satsu", "j_chuu">>})
    THEN <<"bojo">>
    ELSE IF ContainsAny(msg, {<<"j_se", "j_koe">>, <<"j_koe", "j_ryou">>,
                              <<"j_tsui", "j_koe">>, <<"j_moto", "j_koe">>})
    THEN <<"sehi">>
    ELSE IF ContainsAny(msg, {<<"j_shuu_kaku", "j_kaku">>,
                              <<"j_shuu_kaku", "j_kaku", "j_ryou_amount">>,
                              <<"j_shutsu", "j_ka">>})
    THEN <<"shukaku">>
    ELSE IF ContainsAny(msg, {<<"j_ha", "j_shu">>, <<"j_tei", "j_shoku">>,
                              <<"j_teki", "j_shin">>, <<"j_yuu", "j_in">>})
    THEN <<"saibai">>
    ELSE IF ContainsAny(msg, {<<"j_kusa", "j_ka_ri", "h_ri">>, <<"j_sei", "j_sou_clean">>,
                              <<"j_ten", "j_ken">>})
    THEN <<"kanri">>
    ELSE <<>>

\* a fallback that reports a medium confidence
_fallback_extraction_Confident(msg) ==
    [EmptyWorkInfo EXCEPT !.work_date = FallbackWorkDate(msg),
                          !.work_category = FallbackWorkCategory(msg),
                          !.confidence_score = 5000]

_fallback_extraction(msg) ==
    [EmptyWorkInfo EXCEPT !.work_date = FallbackWorkDate(msg),
                          !.work_category = FallbackWorkCategory(msg),
                          !.confidence_score = 3000]

\* ExtractedWorkInfo(**extracted_data) raises unless the category is one of
\* the schema's literals
SchemaAccepts(extracted_data) ==
    extracted_data.work_category = <<>>
    \/ extracted_data.work_category[1] \in SchemaCategories

\* gateway_result.raised: call_function_calling raised after its retries;
\* gateway_result.data: <<>> (no tool call in the response) or <<arguments>>
extract_work_information(msg, gateway_result) ==
    IF gateway_result.raised THEN _fallback_extraction(msg)
    ELSE IF gateway_result.data = <<>> THEN _fallback_extraction(msg)
    ELSE LET extracted_data == gateway_result.data[1]
             confidence_score == calculate_confidence_score(extracted_data)
         IN IF SchemaAccepts(extracted_data)
            THEN [extracted_data EXCEPT !.confidence_score = confidence_score]
            ELSE _fallback_extraction(msg)

(***************************************************************************)
(* WorkLogValidator, version 1 (services/work_log_validator.py): the one   *)
(* ServiceProvider.get_work_log_validator constructs.                      *)
(* db is a record of booleans: whether reads of each collection succeed.   *)
(***************************************************************************)
\* the empty dict of a validation slot
NoValidation ==
    [is_valid |-> "absent", matched |-> <<>>, input |-> <<>>, candidates |-> <<>>,
     ambiguity_detected |-> FALSE, match_quality |-> "", error |-> FALSE]

\* str.lower()
Lower(c) == IF c \in DOMAIN LowerOf THEN LowerOf[c] ELSE c
LowerText(s) == [i \in 1..Len(s) |-> Lower(s[i])]

\* {"$regex": text, "$options": "i"}
RegexI(value, text) == Contains(LowerText(value), LowerText(text))

\* ids of the documents a candidate query returns (limit 5); [] when the
\* query fails
Candidates(data, db_ok, hit(_)) ==
    IF db_ok
    THEN LET found == SelectSeq(data, hit)
         IN [i \in 1..Min2(5, Len(found)) |-> found[i].id]
    ELSE <<>>

_find_field_candidates(field_name, db_ok) ==
    LET hit(f) == RegexI(f.name, field_name) \/ RegexI(f.field_code, field_name)
    IN Candidates(fields_master, db_ok, hit)

_find_crop_candidates(crop_name, db_ok) ==
    LET hit(c) == RegexI(c.name, crop_name)
    IN Candidates(crops_master, db_ok, hit)

_find_material_candidates(material_name, db_ok) ==
    LET hit(m) == RegexI(m.name, material_name) \/ RegexI(m.product_name, material_name)
    IN Candidates(materials_master, db_ok, hit)

\* result dict of _validate_*_name from the resolver's answer
NameValidation(data, text, candidates) ==
    IF data.id # ""
    THEN [NoValidation EXCEPT !.is_valid = "true", !.matched = <<data>>]
    ELSE [NoValidation EXCEPT !.is_valid = "false", !.input = text,
                              !.candidates = candidates]

_validate_field_name(field_name, db) ==
    NameValidation(resolve_field_data(field_name, db.fields), field_name,
                   _find_field_candidates(field_name, db.fields))

_validate_crop_name(crop_name, db) ==
    NameValidation(resolve_crop_data(crop_name, db.crops), crop_name,
                   _find_crop_candidates(crop_name, db.crops))

_validate_material_name(material_name, db) ==
    NameValidation(resolve_material_data(material_name, db.materials), material_name,
                   _find_material_candidates(material_name, db.materials))

\* dict.get("is_valid", False)
IsValidEntry(v) == v.is_valid = "true"

\* truthiness of an optional number
TruthyNumber(q) == q # <<>> /\ q[1] # 0

_check_required_fields(info) ==
    [missing_info |-> (IF info.work_date = <<>> THEN <<"sagyo_bi">> ELSE <<>>)
                      \o (IF info.work_category = <<>> THEN <<"sagyo_bunrui">> ELSE <<>>),
     suggestions |-> (IF info.work_date = <<>> THEN <<"ask_work_date">> ELSE <<>>)
                     \o (IF info.work_category = <<>> THEN <<"ask_work_category">>
                         ELSE <<>>)]

_check_logical_consistency(info) ==
    (IF info.work_category = <<"bojo">> /\ info.materials = <<>>
     THEN <<"ask_pesticide">> ELSE <<>>)
    \o (IF info.materials # <<>> /\ ~TruthyNumber(info.quantity)
        THEN <<"ask_amount">> ELSE <<>>)
    \o (IF TruthyNumber(info.quantity) /\ info.unit = <<>>
        THEN <<"ask_unit">> ELSE <<>>)

validate_work_log_v1(info, db) ==
    LET field_result == IF info.field_name # <<>>
                        THEN _validate_field_name(info.field_name, db)
                        ELSE NoValidation
        crop_result == IF info.crop_name # <<>>
                       THEN _validate_crop_name(info.crop_name, db)
                       ELSE NoValidation
        material_results == [i \in 1..Len(info.materials) |->
                                _validate_material_name(info.materials[i], db)]
        required == _check_required_fields(info)
    IN [is_valid |->
            /\ (info.field_name # <<>> => IsValidEntry(field_result))
            /\ (info.crop_name # <<>> => IsValidEntry(crop_result))
            /\ \A i \in 1..Len(material_results) : IsValidEntry(material_results[i]),
        field_validation |-> field_result,
        crop_validation |-> crop_result,
        material_validation |-> material_results,
        missing_info |-> (IF info.field_name = <<>> THEN <<"hojo_mei">> ELSE <<>>)
                         \o required.missing_info,
        suggestions |-> (IF info.field_name = <<>> THEN <<"ask_field">> ELSE <<>>)
                        \o (IF info.crop_name = <<>> THEN <<"ask_crop">> ELSE <<>>)
                        \o required.suggestions
                        \o _check_logical_consistency(info)]

(***************************************************************************)
(* MasterDataMatcher (domain/master_data_matcher.py).  Confidences are     *)
(* exact fractions.                                                        *)
(***************************************************************************)
match_thresholds ==
    [exact |-> One, high |-> Frac(8, 10), medium |-> Frac(6, 10), low |-> Frac(4, 10)]

Punctuation == {"p_kuten", "p_touten", ".", ",", "!", "?", "p_exclam", "p_question",
                "-", "(", ")", "p_lparen", "p_rparen", "[", "]", "p_lquote", "p_rquote"}

_hiragana_to_katakana(text) ==
    [i \in 1..Len(text) |-> IF text[i] \in Hiragana THEN KatakanaOf[text[i]] ELSE text[i]]

_normalize_text(text) ==
    LET kept(c) == c \notin Whitespace /\ c \notin Punctuation
    IN _hiragana_to_katakana(SelectSeq(LowerText(text), kept))

_calculate_similarity(text1, text2) ==
    IF text1 = <<>> \/ text2 = <<>> THEN Zero
    ELSE IF text1 = text2 THEN One
    ELSE LET similarity == SequenceMatcherRatio(text1, text2)
             shorter_len == Min2(Len(text1), Len(text2))
             longer_len == Max2(Len(text1), Len(text2))
             partial_bonus == Frac(shorter_len * 2, longer_len * 10)
         IN IF Contains(text2, text1) \/ Contains(text1, text2)
            THEN FracMin(One, FracAdd(similarity, partial_bonus))
            ELSE similarity

_assess_match_quality(confidence) ==
    IF FracLe(match_thresholds.exact, confidence) THEN "exact"
    ELSE IF FracLe(match_thresholds.high, confidence) THEN "high"
    ELSE IF FracLe(match_thresholds.medium, confidence) THEN "medium"
    ELSE IF FracLe(match_thresholds.low, confidence) THEN "low"
    ELSE "no_match"

_create_no_match_result == [NoValidation EXCEPT !.match_quality = "no_match"]

\* sorted(matches, key=confidence, reverse=True): a stable sort
SortedByConfidence(matches) ==
    LET before(j, i) == \/ FracLt(matches[i].confidence, matches[j].confidence)
                        \/ (~FracLt(matches[j].confidence, matches[i].confidence) /\ j < i)
        rank(i) == Cardinality({j \in 1..Len(matches) : before(j, i)})
    IN [k \in 1..Len(matches) |->
           matches[CHOOSE i \in 1..Len(matches) : rank(i) = k - 1]]

\* tenths k/10 >= 0.4 for which the double (k+1)/10 - k/10 is below the double 0.1
TenthsRoundingBelow == {4, 5, 6, 8, 9}

\* best - second < 0.1 as computed on doubles: the exact comparison, except
\* where the two scores lie exactly one tenth apart
DiffBelowTenth(best, second) ==
    LET confidence_diff == FracSub(best, second)
    IN \/ FracLt(confidence_diff, Frac(1, 10))
       \/ /\ confidence_diff.n * 10 = confidence_diff.d
          /\ \E k \in TenthsRoundingBelow : second.n * 10 = k * second.d

_select_best_match(matches) ==
    IF matches = <<>> THEN _create_no_match_result
    ELSE LET sorted_matches == SortedByConfidence(matches)
             best_match == sorted_matches[1]
             ambiguity_detected ==
                 /\ Len(sorted_matches) >= 2
                 /\ DiffBelowTenth(best_match.confidence,
                                   sorted_matches[2].confidence)
         IN [NoValidation EXCEPT
                !.matched = <<best_match>>,
                !.candidates = [i \in 1..Min2(3, Len(sorted_matches)) |->
                                   sorted_matches[i].id],
                !.ambiguity_detected = ambiguity_detected,
                !.match_quality = _assess_match_quality(best_match.confidence)]

\* the matches list of a match_* function: one entry per master document
\* whose best score reaches the low threshold
MatchesOf(master, best_score(_), method(_)) ==
    LET entry(doc) == [id |-> doc.id, name |-> doc.name,
                       confidence |-> best_score(doc), method |-> method(doc)]
        hit(doc) == FracLe(match_thresholds.low, best_score(doc))
        hits == SelectSeq(master, hit)
    IN [i \in 1..Len(hits) |-> entry(hits[i])]

\* max over the similarities of the input to a list of names
BestOfNames(normalized_input, names) ==
    LET sims == {_calculate_similarity(normalized_input, _normalize_text(names[i])) :
                    i \in 1..Len(names)}
    IN IF sims = {} THEN Zero
       ELSE CHOOSE x \in sims : \A y \in sims : FracLe(y, x)

\* the matches list match_field_data builds for a non-empty name
field_matches(extracted_name, master_fields) ==
    LET normalized_input == _normalize_text(extracted_name)
        name_score(f) == _calculate_similarity(normalized_input,
                                               _normalize_text(f.name))
        code_score(f) ==
            IF /\ f.field_code # <<>>
               /\ \/ Contains(LowerText(normalized_input), LowerText(f.field_code))
                  \/ Contains(LowerText(f.field_code), LowerText(normalized_input))
            THEN Frac(9, 10) ELSE Zero
        best_score(f) == FracMax(name_score(f), code_score(f))
        method(f) == IF FracLt(code_score(f), name_score(f))
                     THEN "name_similarity" ELSE "code_match"
    IN MatchesOf(master_fields, best_score, method)

match_field_data(extracted_name, master_fields) ==
    IF extracted_name = <<>> \/ master_fields = <<>> THEN _create_no_match_result
    ELSE _select_best_match(field_matches(extracted_name, master_fields))

match_crop_data(extracted_name, master_crops) ==
    IF extracted_name = <<>> \/ master_crops = <<>> THEN _create_no_match_result
    ELSE LET normalized_input == _normalize_text(extracted_name)
             main_score(c) == _calculate_similarity(normalized_input,
                                                    _normalize_text(c.name))
             scientific_score(c) ==
                 IF c.scientific_name # <<>>
                 THEN _calculate_similarity(normalized_input,
                                            _normalize_text(c.scientific_name))
                 ELSE Zero
             alias_score(c) == BestOfNames(normalized_input, c.aliases)
             best_score(c) == FracMax(main_score(c),
                                      FracMax(scientific_score(c), alias_score(c)))
             method(c) == IF scientific_score(c) = best_score(c) THEN "scientific_name"
                          ELSE IF alias_score(c) = best_score(c) THEN "alias"
                          ELSE "main_name"
         IN _select_best_match(MatchesOf(master_crops, best_score, method))

_match_single_material(extracted_name, master_materials) ==
    IF extracted_name = <<>> THEN _create_no_match_result
    ELSE LET normalized_input == _normalize_text(extracted_name)
             name_score(m) == _calculate_similarity(normalized_input,
                                                    _normalize_text(m.name))
             brand_score(m) ==
                 IF m.brand_name # <<>>
                 THEN _calculate_similarity(normalized_input,
                                            _normalize_text(m.brand_name))
                 ELSE Zero
             ingredient_score(m) == BestOfNames(normalized_input, m.active_ingredients)
             partial_score(m) ==
                 IF Len(normalized_input) >= 3
                 THEN IF Contains(_normalize_text(m.name), normalized_input)
                      THEN Frac(7, 10)
                      ELSE IF Contains(normalized_input, _normalize_text(m.name))
                      THEN Frac(6, 10)
                      ELSE Zero
                 ELSE Zero
             best_score(m) == FracMax(FracMax(name_score(m), brand_score(m)),
                                      FracMax(ingredient_score(m), partial_score(m)))
             method(m) == IF brand_score(m) = best_score(m) THEN "brand_name"
                          ELSE IF ingredient_score(m) = best_score(m)
                          THEN "active_ingredient"
                          ELSE IF partial_score(m) = best_score(m) THEN "partial_match"
                          ELSE "material_name"
         IN _select_best_match(MatchesOf(master_materials, best_score, method))

match_material_data(extracted_names, master_materials) ==
    IF extracted_names = <<>> \/ master_materials = <<>> THEN <<>>
    ELSE LET results == [i \in 1..Len(extracted_names) |->
                            _match_single_material(extracted_names[i], master_materials)]
             matched(r) == r.matched # <<>>
         IN SelectSeq(results, matched)

(***************************************************************************)
(* WorkLogValidator, version 2 (services/work_log_validator_v2.py)         *)
(***************************************************************************)
_execute_matching_logic(info) ==
    [field_validation |-> IF info.field_name # <<>>
                          THEN match_field_data(info.field_name, fields_master)
                          ELSE _create_no_match_result,
     crop_validation |-> IF info.crop_name # <<>>
                         THEN match_crop_data(info.crop_name, crops_master)
                         ELSE _create_no_match_result,
     material_validation |-> IF info.materials # <<>>
                             THEN match_material_data(info.materials, materials_master)
                             ELSE <<>>]

_assess_overall_validity(validation_results) ==
    LET field_valid == validation_results.field_validation.matched # <<>>
        crop_valid == validation_results.crop_validation.matched # <<>>
        material_valid == Len(validation_results.material_validation) > 0
    IN field_valid \/ (crop_valid /\ material_valid)

_identify_missing_information(info, validation_results) ==
    (IF info.work_date = <<>> THEN <<"work_date">> ELSE <<>>)
    \o (IF validation_results.field_validation.matched = <<>>
        THEN <<"field_name">> ELSE <<>>)
    \o (IF info.work_category = <<>> THEN <<"work_category">> ELSE <<>>)
    \o (IF info.work_category \in {<<"bojo">>, <<"sehi">>}
           /\ validation_results.material_validation = <<>>
        THEN <<"materials">> ELSE <<>>)
    \o (IF info.work_category = <<"shukaku">> /\ ~TruthyNumber(info.quantity)
        THEN <<"quantity">> ELSE <<>>)

_generate_suggestions(validation_results) ==
    LET ambiguous(v) == v.ambiguity_detected /\ Len(v.candidates) > 1
        partial(v) == v.matched[1].method = "partial_match"
        confirm == SelectSeq(validation_results.material_validation, partial)
    IN (IF ambiguous(validation_results.field_validation)
        THEN <<"field_candidates">> ELSE <<>>)
       \o (IF ambiguous(validation_results.crop_validation)
           THEN <<"crop_candidates">> ELSE <<>>)
       \o [i \in 1..Len(confirm) |-> "confirm_material"]

_build_validation_result(info, validation_results) ==
    [is_valid |-> _assess_overall_validity(validation_results),
     field_validation |-> validation_results.field_validation,
     crop_validation |-> validation_results.crop_validation,
     material_validation |-> validation_results.material_validation,
     missing_info |-> _identify_missing_information(info, validation_results),
     suggestions |-> _generate_suggestions(validation_results)]

_create_error_result ==
    [is_valid |-> FALSE, field_validation |-> NoValidation,
     crop_validation |-> NoValidation, material_validation |-> <<>>,
     missing_info |-> <<"validation_error">>, suggestions |-> <<"validation_error">>]

\* the three collections are read one after the other before any matching;
\* a read that still fails after its retries aborts the whole validation
_fetch_master_data_parallel(db) == db.fields /\ db.crops /\ db.materials

validate_work_log_v2(info, db) ==
    IF _fetch_master_data_parallel(db)
    THEN _build_validation_result(info, _execute_matching_logic(info))
    ELSE _create_error_result

(***************************************************************************)
(* IntelligentDecisionService (services/intelligent_decision_service.py)   *)
(* An LLM response is the set of the parser's keywords it contains.        *)
(***************************************************************************)
\* a dict is a function from its keys; an optional dict is <<>> or <<dict>>
EmptyDict == [k \in {} |-> <<>>]

_parse_llm_response(response, verdict) ==
    LET has(k) == k \in response
        recommended_action ==
            IF has("auto_register_urgent") \/ (has("kinkyu") /\ has("jidou"))
            THEN "auto_register_urgent"
            ELSE IF has("auto_register_inferred") \/ (has("suisoku") /\ has("jidou"))
            THEN "auto_register_inferred"
            ELSE IF has("confirm_with_suggestions") \/ has("teian")
            THEN "confirm_with_suggestions"
            ELSE IF has("request_more_info") \/ has("shousai")
            THEN "request_more_info"
            ELSE "require_confirmation"
        confidence ==
            CASE recommended_action = "auto_register_urgent" -> 8
              [] recommended_action = "auto_register_inferred" -> 7
              [] recommended_action = "confirm_with_suggestions" -> 6
              [] recommended_action = "request_more_info" -> 5
              [] OTHER -> 3
        urgency_level ==
            IF has("critical") \/ has("seishi") THEN "critical"
            ELSE IF has("high") \/ has("kinkyu") THEN "high"
            ELSE IF has("medium") THEN "medium"
            ELSE "low"
    IN [should_override |-> recommended_action # "require_confirmation",
        recommended_action |-> recommended_action,
        confidence |-> confidence,            \* tenths
        reasoning |-> response,
        urgency_level |-> urgency_level,
        \* None, or the empty dict
        missing_info_inference |-> IF has("suisoku") /\ verdict.missing_info # <<>>
                                   THEN <<EmptyDict>> ELSE <<>>]

\* an analysis that recommends an urgent registration when its LLM call fails
analyze_context_FailOpen(llm, verdict) ==
    IF llm.status = "ok"
    THEN [raised |-> FALSE, analysis |-> <<_parse_llm_response(llm.response, verdict)>>]
    ELSE [raised |-> FALSE,
          analysis |-> <<_parse_llm_response({"auto_register_urgent"}, verdict)>>]

\* llm: what the LLM call of this analysis does.  llm.status = "call_failed":
\* the call raises.  The handler then builds a ContextAnalysis without its
\* missing_info_inference field: depending on the installed pydantic this
\* yields the safe analysis (llm.rebuild_raises = FALSE) or raises in turn.
analyze_context(llm, verdict) ==
    IF llm.status = "ok"
    THEN [raised |-> FALSE, analysis |-> <<_parse_llm_response(llm.response, verdict)>>]
    ELSE IF llm.rebuild_raises
    THEN [raised |-> TRUE, analysis |-> <<>>]
    ELSE [raised |-> FALSE,
          analysis |-> << [should_override |-> FALSE,
                           recommended_action |-> "require_confirmation",
                           confidence |-> 0,
                           reasoning |-> {"error"},
                           urgency_level |-> "low",
                           missing_info_inference |-> <<>>] >>]

(***************************************************************************)
(* WorkLogConfirmationService (services/work_log_confirmation.py)          *)
(***************************************************************************)
Button(action, data) == [action |-> action, data |-> data]

\* select buttons for the first three candidates of an entry
SelectButtons(action, entry) ==
    [i \in 1..Min2(3, Len(entry.candidates)) |-> Button(action, entry.candidates[i])]

RECURSIVE Flatten(_)
Flatten(seqs) == IF seqs = <<>> THEN <<>> ELSE Head(seqs) \o Flatten(Tail(seqs))

_generate_final_confirmation ==
    [message |-> "final_confirmation",
     options |-> << Button("confirm_registration", ""), Button("modify_info", ""),
                    Button("cancel", "") >>]

\* dict.get("is_valid", True) is False
Rejected(entry) == entry.is_valid = "false"

_generate_ambiguity_resolution(verdict) ==
    LET invalid_materials == SelectSeq(verdict.material_validation, Rejected)
        shown == SubSeq(invalid_materials, 1, Min2(2, Len(invalid_materials)))
    IN [message |-> "ambiguity_resolution",
        options |->
            (IF Rejected(verdict.field_validation)
             THEN SelectButtons("select_field", verdict.field_validation) ELSE <<>>)
            \o (IF Rejected(verdict.crop_validation)
                THEN SelectButtons("select_crop", verdict.crop_validation) ELSE <<>>)
            \o Flatten([i \in 1..Len(shown) |-> SelectButtons("select_material", shown[i])])
            \o << Button("manual_input", ""), Button("skip_ambiguity", ""),
                  Button("cancel", "") >>]

generate_confirmation_message(info, verdict) ==
    IF verdict.is_valid THEN _generate_final_confirmation
    ELSE _generate_ambiguity_resolution(verdict)

(***************************************************************************)
(* Registration strategies (strategies/*.py).  An execute returns an       *)
(* outcome: whether it raised, the result dict (<<>> or <<dict>>), the     *)
(* work_logs collection afterwards, the strategies it delegated to and the *)
(* number of analyze_context calls it made.  Keys a result dict does not   *)
(* carry hold <<>> (or "" / FALSE).                                        *)
(***************************************************************************)
NoResultKeys ==
    [success |-> FALSE, requires_confirmation |-> FALSE, log_id |-> <<>>,
     registration_type |-> "", strategy_used |-> "", confirmation_data |-> <<>>,
     confidence_score |-> <<>>, extracted_data |-> <<>>,
     intelligent_analysis |-> <<>>, error |-> FALSE]

Outcome(raised, res, logs, deleg, analyses) ==
    [raised |-> raised, result |-> res, work_logs |-> logs, delegated |-> deleg,
     analyze_calls |-> analyses]

\* ---- AutoRegistrationStrategy ------------------------------------------
\* a predicate that does not ask for the essential information
Auto_can_handle_ThreeConditions(info, verdict) ==
    verdict.is_valid /\ info.confidence_score >= 8000 /\ Len(verdict.missing_info) <= 1

Auto_can_handle(info, verdict) ==
    LET confidence == info.confidence_score
        missing_count == Len(verdict.missing_info)
        has_essential_info ==
            /\ info.work_category # <<>>
            /\ (info.field_name # <<>> \/ verdict.field_validation.matched # <<>>)
    IN IF ~verdict.is_valid \/ confidence < 8000 THEN FALSE
       ELSE has_essential_info /\ missing_count <= 1

DigitSeq == <<"0", "1", "2", "3", "4", "5", "6", "7", "8", "9">>
DigitValue(c) == (CHOOSE k \in 1..10 : DigitSeq[k] = c) - 1

RECURSIVE ParseInt(_)
ParseInt(ds) ==
    IF ds = <<>> THEN 0
    ELSE 10 * ParseInt(SubSeq(ds, 1, Len(ds) - 1)) + DigitValue(ds[Len(ds)])

\* re.search(r'(\d+)日前', s): the leftmost match, as <<first, last>> of its
\* digits, or <<>>
DaysAgoSearch(s) ==
    LET runs == { r \in (1..Len(s)) \X (1..Len(s)) :
                     /\ r[1] <= r[2]
                     /\ \A k \in r[1]..r[2] : s[k] \in Digits
                     /\ MatchAt(s, <<"j_hi", "j_mae">>, r[2] + 1) }
    IN IF runs = {} THEN <<>>
       ELSE CHOOSE r \in runs : \A q \in runs : r[1] <= q[1]

\* the work date as a number of days before today
_parse_work_date(work_date_str) ==
    IF work_date_str = <<>> THEN 0
    ELSE IF work_date_str = <<"j_kon", "j_hi">> THEN 0
    ELSE IF work_date_str = <<"j_saku", "j_hi">> THEN 1
    ELSE IF work_date_str = <<"j_ichi", "j_saku", "j_hi">> THEN 2
    ELSE IF Contains(work_date_str, <<"j_hi", "j_mae">>)
            /\ DaysAgoSearch(work_date_str) # <<>>
    THEN LET r == DaysAgoSearch(work_date_str)
         IN ParseInt(SubSeq(work_date_str, r[1], r[2]))
    ELSE 0

\* the log record _save_work_log builds and inserts
\* a record builder that reads the crop id from the field entry
WorkLogRecord_CropIdFromField(info, verdict, original_message, uid, log_id) ==
    LET matched(entry) == entry.matched # <<>>
        validated_materials == SelectSeq(verdict.material_validation, matched)
    IN [log_id |-> log_id,
        user_id |-> uid,
        work_date |-> _parse_work_date(info.work_date),
        original_message |-> original_message,
        extracted_data |->
            [confidence_score |-> info.confidence_score,
             field_id |-> IF matched(verdict.field_validation)
                          THEN verdict.field_validation.matched[1].id ELSE "",
             crop_id |-> IF matched(verdict.field_validation)
                         THEN verdict.field_validation.matched[1].id ELSE "",
             material_ids |-> [i \in 1..Len(validated_materials) |->
                                  validated_materials[i].matched[1].id],
             quantity |-> info.quantity,
             unit |-> info.unit,
             work_count |-> IF TruthyNumber(info.work_count) THEN info.work_count
                            ELSE <<>>,
             notes |-> info.notes],
        category |-> IF info.work_category # <<>> THEN info.work_category
                     ELSE <<"sonota">>,
        status |-> "confirmed"]

WorkLogRecord(info, verdict, original_message, uid, log_id) ==
    LET matched(entry) == entry.matched # <<>>
        validated_materials == SelectSeq(verdict.material_validation, matched)
    IN [log_id |-> log_id,
        user_id |-> uid,
        work_date |-> _parse_work_date(info.work_date),
        original_message |-> original_message,
        extracted_data |->
            [confidence_score |-> info.confidence_score,
             field_id |-> IF matched(verdict.field_validation)
                          THEN verdict.field_validation.matched[1].id ELSE "",
             crop_id |-> IF matched(verdict.crop_validation)
                         THEN verdict.crop_validation.matched[1].id ELSE "",
             material_ids |-> [i \in 1..Len(validated_materials) |->
                                  validated_materials[i].matched[1].id],
             quantity |-> info.quantity,
             unit |-> info.unit,
             work_count |-> IF TruthyNumber(info.work_count) THEN info.work_count
                            ELSE <<>>,
             notes |-> info.notes],
        category |-> IF info.work_category # <<>> THEN info.work_category
                     ELSE <<"sonota">>,
        status |-> "confirmed"]

\* a save that returns the record although the insert did not complete
_save_work_log_ReportsUnwritten(info, verdict, original_message, uid, logs, storage_ok) ==
    LET log_record == WorkLogRecord(info, verdict, original_message, uid,
                                    Len(logs) + 1)
    IN [raised |-> FALSE,
        work_logs |-> IF storage_ok THEN Append(logs, log_record) ELSE logs,
        log_record |-> <<log_record>>]

\* storage_ok: whether get_client / insert_one succeed.  Returns the
\* collection afterwards and the record (<<>> when the write raised).
_save_work_log(info, verdict, original_message, uid, logs, storage_ok) ==
    LET log_record == WorkLogRecord(info, verdict, original_message, uid,
                                    Len(logs) + 1)
    IN IF storage_ok
       THEN [raised |-> FALSE, work_logs |-> Append(logs, log_record),
             log_record |-> <<log_record>>]
       ELSE [raised |-> TRUE, work_logs |-> logs, log_record |-> <<>>]

Auto_execute(info, verdict, msg, uid, logs, storage_ok) ==
    LET saved == _save_work_log(info, verdict, msg, uid, logs, storage_ok)
    IN IF saved.raised
       THEN Outcome(TRUE, <<>>, saved.work_logs, <<>>, 0)
       ELSE Outcome(FALSE,
                    << [NoResultKeys EXCEPT
                           !.success = TRUE,
                           !.log_id = <<saved.log_record[1].log_id>>,
                           !.confidence_score = <<info.confidence_score>>,
                           !.extracted_data = <<saved.log_record[1].extracted_data>>,
                           !.requires_confirmation = FALSE,
                           !.registration_type = "auto",
                           !.strategy_used = "AutoRegistrationStrategy"] >>,
                    saved.work_logs, <<>>, 0)

\* ---- ConfirmationStrategy ----------------------------------------------
Confirmation_can_handle(info, verdict) == TRUE

ConfirmationData(info, verdict, msg, uid, llm_analysis) ==
    LET confirmation_data == generate_confirmation_message(info, verdict)
    IN [message |-> confirmation_data.message,
        options |-> confirmation_data.options,
        extracted_info |-> info,
        validation_result |-> verdict,
        original_message |-> msg,
        user_id |-> uid,
        llm_analysis |-> llm_analysis]

\* a confirmation that also stores the record and returns its id
Confirmation_execute_Persisting(info, verdict, msg, uid, logs) ==
    Outcome(FALSE,
            << [NoResultKeys EXCEPT
                   !.success = TRUE,
                   !.requires_confirmation = TRUE,
                   !.log_id = <<Len(logs) + 1>>,
                   !.confirmation_data =
                       <<ConfirmationData(info, verdict, msg, uid, <<>>)>>,
                   !.confidence_score = <<info.confidence_score>>,
                   !.registration_type = "confirmation_required",
                   !.strategy_used = "ConfirmationStrategy"] >>,
            Append(logs, WorkLogRecord(info, verdict, msg, uid, Len(logs) + 1)),
            <<>>, 0)

Confirmation_execute(info, verdict, msg, uid, logs) ==
    Outcome(FALSE,
            << [NoResultKeys EXCEPT
                   !.success = TRUE,
                   !.requires_confirmation = TRUE,
                   !.confirmation_data =
                       <<ConfirmationData(info, verdict, msg, uid, <<>>)>>,
                   !.confidence_score = <<info.confidence_score>>,
                   !.registration_type = "confirmation_required",
                   !.strategy_used = "ConfirmationStrategy"] >>,
            logs, <<>>, 0)

\* an execute that falls back to ConfirmationStrategy after `analyses`
\* analyze_context calls and the delegations `deleg`
FallBackToConfirmation(info, verdict, msg, uid, logs, deleg, analyses) ==
    LET fallback == Confirmation_execute(info, verdict, msg, uid, logs)
    IN Outcome(FALSE, fallback.result, fallback.work_logs,
               deleg \o <<"ConfirmationStrategy">>, analyses)

\* ---- EnhancedConfirmationStrategy --------------------------------------
EnhancedConfirmation_can_handle(info, verdict) ==
    LET confidence == info.confidence_score
        missing_count == Len(verdict.missing_info)
    IN /\ 4000 <= confidence /\ confidence < 7000
       /\ missing_count <= 3
       /\ verdict.suggestions # <<>>

EnhancedConfirmation_execute(info, verdict, msg, uid, logs, llm) ==
    IF llm.status = "unavailable"
    THEN FallBackToConfirmation(info, verdict, msg, uid, logs, <<>>, 0)
    ELSE LET analysed == analyze_context(llm, verdict)
         IN IF analysed.raised
            THEN FallBackToConfirmation(info, verdict, msg, uid, logs, <<>>, 1)
            ELSE LET context_analysis == analysed.analysis[1]
                     llm_analysis ==
                         [urgency_level |-> context_analysis.urgency_level,
                          reasoning |-> context_analysis.reasoning,
                          confidence |-> context_analysis.confidence,
                          recommended_action |-> context_analysis.recommended_action]
                 IN Outcome(FALSE,
                            << [NoResultKeys EXCEPT
                                   !.success = TRUE,
                                   !.requires_confirmation = TRUE,
                                   !.confirmation_data =
                                       <<ConfirmationData(info, verdict, msg, uid,
                                                          <<llm_analysis>>)>>,
                                   !.confidence_score = <<info.confidence_score>>,
                                   !.registration_type =
                                       "enhanced_confirmation_required",
                                   !.strategy_used =
                                       "EnhancedConfirmationStrategy"] >>,
                            logs, <<>>, 1)

\* ---- IntelligentStrategy -----------------------------------------------
\* a predicate without the upper bound on the confidence
Intelligent_can_handle_NoUpperBound(info, verdict) ==
    LET confidence == info.confidence_score
        missing_count == Len(verdict.missing_info)
    IN /\ 4000 <= confidence
       /\ 1 <= missing_count /\ missing_count <= 2
       /\ verdict.is_valid

\* a predicate that does not ask for a valid verdict
Intelligent_can_handle_IgnoresValidity(info, verdict) ==
    LET confidence == info.confidence_score
        missing_count == Len(verdict.missing_info)
    IN /\ 4000 <= confidence /\ confidence < 8000
       /\ 1 <= missing_count /\ missing_count <= 2

Intelligent_can_handle(info, verdict) ==
    LET confidence == info.confidence_score
        missing_count == Len(verdict.missing_info)
    IN /\ 4000 <= confidence /\ confidence < 8000
       /\ 1 <= missing_count /\ missing_count <= 2
       /\ verdict.is_valid

\* _execute_urgent_registration / _execute_inferred_registration: the
\* record is written by a fresh AutoRegistrationStrategy; a raise of it is
\* caught by IntelligentStrategy.execute, which falls back to confirmation.
\* The inferred variant applies missing_info_inference first.
DelegatedRegistration(info, verdict, msg, uid, logs, env, context_analysis, label) ==
    LET auto == Auto_execute(info, verdict, msg, uid, logs, env.storage_ok)
    IN IF auto.raised
       THEN FallBackToConfirmation(info, verdict, msg, uid, auto.work_logs,
                                   <<"AutoRegistrationStrategy">>, 1)
       ELSE Outcome(FALSE,
                    << [auto.result[1] EXCEPT
                           !.intelligent_analysis =
                               << [reasoning |-> context_analysis.reasoning,
                                   confidence |-> context_analysis.confidence] >>,
                           !.strategy_used = label] >>,
                    auto.work_logs, <<"AutoRegistrationStrategy">>, 1)

\* "not updated_data[key]": None, "", [], 0 and 0.0 are all false
Falsy(key, value) ==
    IF key = "confidence_score" THEN value = 0
    ELSE \/ value = <<>>
         \/ key \in {"quantity", "work_count"} /\ value = <<0>>

_apply_llm_inferences(info, inferences) ==
    [key \in DOMAIN info |->
        IF key \in DOMAIN inferences /\ Falsy(key, info[key])
        THEN inferences[key] ELSE info[key]]

\* the record _execute_inferred_registration hands to the automatic strategy
InferredInfo(info, context_analysis) ==
    LET inference == context_analysis.missing_info_inference
    IN IF inference # <<>> /\ DOMAIN inference[1] # {}
       THEN _apply_llm_inferences(info, inference[1])
       ELSE info

\* the fallback of IntelligentStrategy.execute is given the record as it
\* was extracted
_execute_inferred_registration(info, verdict, msg, uid, logs, env, context_analysis) ==
    IF env.storage_ok
    THEN DelegatedRegistration(InferredInfo(info, context_analysis), verdict, msg,
                               uid, logs, env, context_analysis,
                               "IntelligentStrategy/inferred")
    ELSE DelegatedRegistration(info, verdict, msg, uid, logs, env,
                               context_analysis, "IntelligentStrategy/inferred")

_execute_based_on_analysis(context_analysis, info, verdict, msg, uid, logs, env) ==
    LET action == context_analysis.recommended_action
    IN IF action = "auto_register_urgent"
       THEN DelegatedRegistration(info, verdict, msg, uid, logs, env,
                                  context_analysis, "IntelligentStrategy/urgent")
       ELSE IF action = "auto_register_inferred"
       THEN _execute_inferred_registration(info, verdict, msg, uid, logs, env,
                                           context_analysis)
       ELSE IF action = "confirm_with_suggestions"
       THEN LET enhanced == EnhancedConfirmation_execute(info, verdict, msg, uid,
                                                         logs, env.llm2)
            IN Outcome(FALSE, enhanced.result, enhanced.work_logs,
                       <<"EnhancedConfirmationStrategy">> \o enhanced.delegated,
                       1 + enhanced.analyze_calls)
       ELSE FallBackToConfirmation(info, verdict, msg, uid, logs, <<>>, 1)

Intelligent_execute(info, verdict, msg, uid, logs, env) ==
    IF env.llm1.status = "unavailable"
    THEN FallBackToConfirmation(info, verdict, msg, uid, logs, <<>>, 0)
    ELSE LET analysed == analyze_context(env.llm1, verdict)
         IN IF analysed.raised
            THEN FallBackToConfirmation(info, verdict, msg, uid, logs, <<>>, 1)
            ELSE _execute_based_on_analysis(analysed.analysis[1], info, verdict,
                                            msg, uid, logs, env)

(***************************************************************************)
(* RegistrationStrategyContext and the factory's ordered strategy list     *)
(***************************************************************************)
_create_ordered_strategies ==
    << "AutoRegistrationStrategy", "IntelligentStrategy",
       "EnhancedConfirmationStrategy", "ConfirmationStrategy" >>

can_handle(strategy, info, verdict) ==
    CASE strategy = "AutoRegistrationStrategy" -> Auto_can_handle(info, verdict)
      [] strategy = "IntelligentStrategy" -> Intelligent_can_handle(info, verdict)
      [] strategy = "EnhancedConfirmationStrategy" ->
             EnhancedConfirmation_can_handle(info, verdict)
      [] strategy = "ConfirmationStrategy" -> Confirmation_can_handle(info, verdict)

execute(strategy, info, verdict, msg, uid, logs, env) ==
    CASE strategy = "AutoRegistrationStrategy" ->
             Auto_execute(info, verdict, msg, uid, logs, env.storage_ok)
      [] strategy = "IntelligentStrategy" ->
             Intelligent_execute(info, verdict, msg, uid, logs, env)
      [] strategy = "EnhancedConfirmationStrategy" ->
             EnhancedConfirmation_execute(info, verdict, msg, uid, logs, env.llm1)
      [] strategy = "ConfirmationStrategy" ->
             Confirmation_execute(info, verdict, msg, uid, logs)

\* a context that runs the last strategy able to handle the submission
SelectedStrategy_LastMatch(strategies, info, verdict) ==
    LET able == {i \in 1..Len(strategies) : can_handle(strategies[i], info, verdict)}
    IN IF able # {} THEN strategies[CHOOSE i \in able : \A j \in able : j <= i]
       ELSE strategies[Len(strategies)]

\* the strategy execute_best_strategy runs: the first of the list that can
\* handle the submission, the last of the list when none can
SelectedStrategy(strategies, info, verdict) ==
    LET able == {i \in 1..Len(strategies) : can_handle(strategies[i], info, verdict)}
    IN IF able # {} THEN strategies[First(able)] ELSE strategies[Len(strategies)]

execute_best_strategy(strategies, info, verdict, msg, uid, logs, env) ==
    execute(SelectedStrategy(strategies, info, verdict), info, verdict, msg, uid,
            logs, env)

(***************************************************************************)
(* Inputs of the model                                                     *)
(***************************************************************************)
MaxMaterials == 1

Messages ==
    { <<>>,
      <<"j_saku", "j_hi", "j_bou", "j_jo">>,
      <<"3", "j_hi", "j_mae", "j_shuu_kaku", "j_kaku">> }

UserIds == {"U1"}

WorkDates == { <<>>, <<"j_saku", "j_hi">> }
FieldNames == { <<>>, <<"A", "j_hatake">>, <<"j_hatake">>, <<"a", "j_hatake">>,
                <<"X", "j_ta">> }
CropNames == { <<>>, <<"k_to", "k_ma", "k_to">>, <<"k_na", "k_su">> }
MaterialNames == { <<"Z", "1">>, <<"j_kona">> }
MaterialLists == UNION {[1..n -> MaterialNames] : n \in 0..MaxMaterials}
WorkCategories == { <<>>, <<"bojo">>, <<"shukaku">>, <<"nouyaku_sanpu">> }
Amounts == { [quantity |-> <<>>, unit |-> <<>>], [quantity |-> <<500>>, unit |-> <<"L">>] }

\* arguments of the extraction tool call (confidence_score is filled in by
\* the extractor)
LLMOutputs ==
    { [work_date |-> d, field_name |-> f, crop_name |-> c, work_category |-> w,
       materials |-> m, quantity |-> a.quantity, unit |-> a.unit,
       work_count |-> <<>>, notes |-> <<>>, confidence_score |-> 0] :
      d \in WorkDates, f \in FieldNames, c \in CropNames, w \in WorkCategories,
      m \in MaterialLists, a \in Amounts }

GatewayResults ==
    { [raised |-> TRUE, data |-> <<>>], [raised |-> FALSE, data |-> <<>>] }
    \cup { [raised |-> FALSE, data |-> <<d>>] : d \in LLMOutputs }

DbOutcomes == [fields : BOOLEAN, crops : BOOLEAN, materials : BOOLEAN]

LLMResponses ==
    { {"auto_register_urgent", "critical"}, {"auto_register_inferred", "suisoku"},
      {"confirm_with_suggestions"}, {"request_more_info"}, {} }

QuietLLM == [status |-> "ok", rebuild_raises |-> FALSE, response |-> {}]

LLMOutcomes ==
    { [status |-> "ok", rebuild_raises |-> FALSE, response |-> r] : r \in LLMResponses }
    \cup { [status |-> "call_failed", rebuild_raises |-> b, response |-> {}] :
           b \in BOOLEAN }
    \cup { [status |-> "unavailable", rebuild_raises |-> FALSE, response |-> {}] }

\* what the environment does during one execute_best_strategy; only the
\* parts the selected strategy consults are varied
Environments(strategy) ==
    [storage_ok : IF strategy \in {"AutoRegistrationStrategy", "IntelligentStrategy"}
                  THEN BOOLEAN ELSE {TRUE},
     llm1 : IF strategy \in {"IntelligentStrategy", "EnhancedConfirmationStrategy"}
            THEN LLMOutcomes ELSE {QuietLLM},
     llm2 : IF strategy = "IntelligentStrategy" THEN LLMOutcomes ELSE {QuietLLM}]

(***************************************************************************)
(* WorkLogRegistrationAgent.register_work_log                              *)
(*   (agents/work_log_registration_agent.py)                               *)
(***************************************************************************)
validate_work_log(version, info, db) ==
    IF version = "v1" THEN validate_work_log_v1(info, db)
    ELSE validate_work_log_v2(info, db)

\* the dict register_work_log returns when the flow raised
ErrorResult == [NoResultKeys EXCEPT !.success = FALSE, !.error = TRUE,
                                    !.requires_confirmation = FALSE]

\* an agent that lets the exception of the flow reach its caller (no value
\* is returned)
register_work_log_Propagating(outcome) ==
    IF outcome.raised THEN <<>> ELSE outcome.result

\* what register_work_log returns for the outcome of
\* _enhanced_registration_flow
register_work_log(outcome) ==
    IF outcome.raised THEN <<ErrorResult>> ELSE outcome.result

\* ---- failures met by a run (observations for the properties) -----------
\* the gateway call raised after its retries, returned no tool call, or
\* returned arguments the ExtractedWorkInfo schema rejects
ExtractionFaults(gateway_result) ==
    IF gateway_result.raised THEN {"gateway_raised"}
    ELSE IF gateway_result.data = <<>> THEN {"gateway_empty"}
    ELSE IF ~SchemaAccepts(gateway_result.data[1]) THEN {"schema_rejected"}
    ELSE {}

\* the collections whose read was attempted and failed: version 1 reads a
\* collection when the record names an entity of the kind, version 2 reads
\* fields, crops and materials in this order and stops at the first failure
LookupFaults(version, info, db) ==
    IF version = "v1"
    THEN (IF info.field_name # <<>> /\ ~db.fields THEN {"db_fields"} ELSE {})
         \cup (IF info.crop_name # <<>> /\ ~db.crops THEN {"db_crops"} ELSE {})
         \cup (IF info.materials # <<>> /\ ~db.materials THEN {"db_materials"} ELSE {})
    ELSE IF ~db.fields THEN {"db_fields"}
    ELSE IF ~db.crops THEN {"db_crops"}
    ELSE IF ~db.materials THEN {"db_materials"}
    ELSE {}

\* failure of the analysis a strategy runs itself
AnalysisFaults(llm) ==
    CASE llm.status = "unavailable" -> {"analysis_service"}
      [] llm.status = "call_failed" -> {"analysis"}
      [] OTHER -> {}

\* failure of the analysis run by a strategy another strategy delegated to
NestedAnalysisFaults(llm) ==
    CASE llm.status = "unavailable" -> {"nested_analysis_service"}
      [] llm.status = "call_failed" -> {"nested_analysis"}
      [] OTHER -> {}

StorageFaults(env) == IF env.storage_ok THEN {} ELSE {"storage"}

\* failures met by the strategy execute_best_strategy runs
ExecutionFaults(strategy, verdict, env) ==
    CASE strategy = "AutoRegistrationStrategy" -> StorageFaults(env)
      [] strategy = "EnhancedConfirmationStrategy" -> AnalysisFaults(env.llm1)
      [] strategy = "IntelligentStrategy" ->
            IF env.llm1.status # "ok" THEN AnalysisFaults(env.llm1)
            ELSE LET action == _parse_llm_response(env.llm1.response,
                                                   verdict).recommended_action
                 IN IF action \in {"auto_register_urgent", "auto_register_inferred"}
                    THEN StorageFaults(env)
                    ELSE IF action = "confirm_with_suggestions"
                    THEN NestedAnalysisFaults(env.llm2)
                    ELSE {}
      [] OTHER -> {}

(***************************************************************************)
(* async_retry (utils/retry_decorator.py)                                  *)
(***************************************************************************)
gemini_retry == [max_retries |-> 3, delay |-> 1000000, backoff |-> [n |-> 2, d |-> 1],
                 jitter |-> TRUE]
mongodb_retry == [max_retries |-> 2, delay |-> 500000, backoff |-> [n |-> 3, d |-> 2],
                  jitter |-> TRUE]
database_retry == mongodb_retry
quick_retry == [max_retries |-> 1, delay |-> 100000, backoff |-> [n |-> 1, d |-> 1],
                jitter |-> FALSE]

RECURSIVE Power(_, _)
Power(b, e) == IF e = 0 THEN 1 ELSE b * Power(b, e - 1)

\* random.random() in eighths: 0.5 + random.random() * 0.5 is (8 + r) / 16
RandomEighths == {0, 3, 7}

\* delay * backoff ** attempt, times the jitter factor; microseconds
WaitTime(policy, n, r) ==
    LET wait_time == (policy.delay * Power(policy.backoff.n, n))
                         \div Power(policy.backoff.d, n)
    IN IF policy.jitter THEN (wait_time * (8 + r)) \div 16 ELSE wait_time

\* a wrapper that gives up one failure later
LastAttempt_OneMore(n, max_retries) == n = max_retries + 1

\* if attempt == max_retries
LastAttempt(n, max_retries) == n = max_retries

\* no async_retry wrapper is running and confirm_and_register was not called
\* MasterDataResolver.__init__ and a task that has not called a read yet
cache_timeout == 300
Readers == {"t1", "t2"}
IdleReader == [pc |-> "idle", component |-> "", current_time |-> 0,
               returned |-> <<>>, raised |-> FALSE]

\* no reference read is going on beside the modelled submission
NoReaders ==
    /\ now = 0
    /\ dataset = "fields"
    /\ cache = <<>>
    /\ cache_time = 0
    /\ storage = "s1"
    /\ readers = [r \in Readers |-> IdleReader]
    /\ gateway_loaded = <<>>

\* no inferred registration is going on beside the modelled submission
NoInference ==
    /\ inference_map = EmptyDict
    /\ updated_data = <<>>

\* no reference lookup is made on its own
NoMatchCall == match_call = <<>>

NoRetry ==
    /\ NoReaders
    /\ NoInference
    /\ NoMatchCall
    /\ user_choice = ""
    /\ confirm_result = <<>>
    /\ retry_pc = "idle"
    /\ retry_policy = quick_retry
    /\ attempt = 0
    /\ invocations = <<>>
    /\ waits = <<>>

Init ==
    /\ NoRetry
    /\ pc = "received"
    /\ validator \in {"v1", "v2"}
    /\ message \in Messages
    /\ user_id \in UserIds
    /\ extracted_info = <<>>
    /\ validation_result = <<>>
    /\ work_logs = <<>>
    /\ called = <<>>
    /\ delegated = <<>>
    /\ analyze_calls = 0
    /\ faults = {}
    /\ result = <<>>
    /\ strategy_context = _create_ordered_strategies

ExtractWorkInformation ==
    /\ pc = "received"
    /\ \E gateway_result \in GatewayResults :
          /\ extracted_info' = <<extract_work_information(message, gateway_result)>>
          /\ faults' = faults \cup ExtractionFaults(gateway_result)
    /\ pc' = "extracted"
    /\ UNCHANGED <<validator, message, user_id, validation_result, work_logs, called,
                   delegated, analyze_calls, result, strategy_context,
                   outside_pipeline>>

ValidateWorkLog ==
    /\ pc = "extracted"
    /\ \E db \in DbOutcomes :
          /\ validation_result' = <<validate_work_log(validator, extracted_info[1], db)>>
          /\ faults' = faults \cup LookupFaults(validator, extracted_info[1], db)
    /\ pc' = "validated"
    /\ UNCHANGED <<validator, message, user_id, extracted_info, work_logs, called,
                   delegated, analyze_calls, result, strategy_context,
                   outside_pipeline>>

ExecuteBestStrategy ==
    /\ pc = "validated"
    /\ LET info == extracted_info[1]
           verdict == validation_result[1]
           strategy == SelectedStrategy(strategy_context, info, verdict)
       IN \E env \in Environments(strategy) :
             LET outcome == execute_best_strategy(strategy_context, info,
                                                  verdict, message, user_id,
                                                  work_logs, env)
             IN /\ called' = Append(called, strategy)
                /\ delegated' = delegated \o outcome.delegated
                /\ analyze_calls' = analyze_calls + outcome.analyze_calls
                /\ work_logs' = outcome.work_logs
                /\ faults' = faults \cup ExecutionFaults(strategy, verdict, env)
                /\ result' = register_work_log(outcome)
    /\ pc' = "done"
    /\ UNCHANGED <<validator, message, user_id, extracted_info, validation_result,
                   strategy_context, outside_pipeline>>

Next == ExtractWorkInformation \/ ValidateWorkLog \/ ExecuteBestStrategy

Spec == Init /\ [][Next]_vars

(***************************************************************************)
(* WorkLogRegistrationAgent.confirm_and_register: the submitter answers a  *)
(* confirmation                                                            *)
(***************************************************************************)
\* names bound at module level in agents/work_log_registration_agent.py
AgentModuleNames ==
    {"logging", "datetime", "timedelta", "Dict", "Any", "Optional",
     "DatabaseConnection", "IServiceProvider", "ServiceProvider",
     "ExtractedWorkInfo", "WorkLogValidationResult", "UserConfirmationData",
     "RegistrationStrategyFactory", "logger"}

\* the first statement computes the log id with uuid.uuid4(); a name the
\* module does not bind raises NameError, which the method logs and re-raises
_save_enhanced_work_log(info, verdict, original_message, uid, logs, storage_ok) ==
    LET log_record == WorkLogRecord(info, verdict, original_message, uid,
                                    Len(logs) + 1)
    IN IF "uuid" \notin AgentModuleNames
       THEN [raised |-> TRUE, work_logs |-> logs, log_record |-> <<>>]
       ELSE IF storage_ok
       THEN [raised |-> FALSE, work_logs |-> Append(logs, log_record),
             log_record |-> <<log_record>>]
       ELSE [raised |-> TRUE, work_logs |-> logs, log_record |-> <<>>]

NoConfirmKeys ==
    [success |-> FALSE, log_id |-> <<>>, extracted_data |-> <<>>,
     registration_type |-> "", action_required |-> "", error |-> FALSE]

confirm_and_register(confirmation_data, choice, logs, storage_ok) ==
    IF choice = "confirm_registration"
    THEN LET saved == _save_enhanced_work_log(confirmation_data.extracted_info,
                                              confirmation_data.validation_result,
                                              confirmation_data.original_message,
                                              confirmation_data.user_id,
                                              logs, storage_ok)
         IN IF saved.raised
            THEN [result |-> [NoConfirmKeys EXCEPT !.error = TRUE],
                  work_logs |-> saved.work_logs]
            ELSE [result |-> [NoConfirmKeys EXCEPT
                                 !.success = TRUE,
                                 !.log_id = <<saved.log_record[1].log_id>>,
                                 !.extracted_data =
                                     <<saved.log_record[1].extracted_data>>,
                                 !.registration_type = "confirmed"],
                  work_logs |-> saved.work_logs]
    ELSE IF choice = "modify_info"
    THEN [result |-> [NoConfirmKeys EXCEPT !.success = TRUE,
                                           !.action_required = "modify_input"],
          work_logs |-> logs]
    ELSE IF choice = "cancel"
    THEN [result |-> [NoConfirmKeys EXCEPT !.success = TRUE,
                                           !.action_required = "cancelled"],
          work_logs |-> logs]
    ELSE [result |-> [NoConfirmKeys EXCEPT !.action_required = "unknown_choice"],
          work_logs |-> logs]

UserChoices == {"confirm_registration", "modify_info", "cancel", "manual_input"}

ConfirmMessages == { <<"j_saku", "j_hi", "j_bou", "j_jo">> }

InitConfirm ==
    /\ NoRetry
    /\ pc = "received"
    /\ validator = "v1"
    /\ message \in ConfirmMessages
    /\ user_id \in UserIds
    /\ extracted_info = <<>>
    /\ validation_result = <<>>
    /\ work_logs = <<>>
    /\ called = <<>>
    /\ delegated = <<>>
    /\ analyze_calls = 0
    /\ faults = {}
    /\ result = <<>>
    /\ strategy_context = _create_ordered_strategies

\* the caller passes the payload of the confirmation it was given
ConfirmAndRegister ==
    /\ pc = "done"
    /\ result[1].requires_confirmation
    /\ result[1].confirmation_data # <<>>
    /\ \E choice \in UserChoices, storage_ok \in BOOLEAN :
          LET returned == confirm_and_register(result[1].confirmation_data[1], choice,
                                               work_logs, storage_ok)
          IN /\ user_choice' = choice
             /\ confirm_result' = <<returned.result>>
             /\ work_logs' = returned.work_logs
    /\ pc' = "confirmed"
    /\ UNCHANGED <<validator, message, user_id, extracted_info, validation_result,
                   called, delegated, analyze_calls, faults, result, strategy_context,
                   retry_vars, cache_vars, infer_vars, match_vars>>

NextConfirm == Next \/ ConfirmAndRegister

SpecConfirm == InitConfirm /\ [][NextConfirm]_vars

(***************************************************************************)
(* One call of an operation wrapped by async_retry                         *)
(***************************************************************************)
\* no submission is being handled
NoSubmission ==
    /\ pc = "idle"
    /\ validator = "v1"
    /\ message = <<>>
    /\ user_id = "U1"
    /\ extracted_info = <<>>
    /\ validation_result = <<>>
    /\ work_logs = <<>>
    /\ called = <<>>
    /\ delegated = <<>>
    /\ analyze_calls = 0
    /\ faults = {}
    /\ result = <<>>
    /\ strategy_context = _create_ordered_strategies

InitRetry ==
    /\ NoSubmission
    /\ NoReaders
    /\ NoInference
    /\ NoMatchCall
    /\ user_choice = ""
    /\ confirm_result = <<>>
    /\ retry_pc = "attempt"
    /\ retry_policy \in {gemini_retry, mongodb_retry, quick_retry}
    /\ attempt = 0
    /\ invocations = <<>>
    /\ waits = <<>>

\* one pass of the loop body up to the return, the raise or the sleep
RetryAttempt ==
    /\ retry_pc = "attempt"
    /\ \E outcome \in {"ok", "failed"} :
          /\ invocations' = Append(invocations, outcome)
          /\ IF outcome = "ok"
             THEN retry_pc' = "returned" /\ waits' = waits
             ELSE IF LastAttempt(attempt, retry_policy.max_retries)
             THEN retry_pc' = "raised" /\ waits' = waits
             ELSE /\ retry_pc' = "sleeping"
                  /\ \E r \in RandomEighths :
                        waits' = Append(waits, WaitTime(retry_policy, attempt, r))
    /\ UNCHANGED <<retry_policy, attempt, outside_retry>>

\* asyncio.sleep returns and the loop goes on; when the range is used up
\* the wrapper raises last_exception
RetryWakeUp ==
    /\ retry_pc = "sleeping"
    /\ IF attempt + 1 <= retry_policy.max_retries
       THEN retry_pc' = "attempt" /\ attempt' = attempt + 1
       ELSE retry_pc' = "raised" /\ attempt' = attempt
    /\ UNCHANGED <<retry_policy, invocations, waits, outside_retry>>

NextRetry == RetryAttempt \/ RetryWakeUp

SpecRetry == InitRetry /\ [][NextRetry]_vars

(***************************************************************************)
(* A submission handled by a context built by                              *)
(* RegistrationStrategyFactory.create_custom_strategy_context              *)
(***************************************************************************)
StrategyNames == {"AutoRegistrationStrategy", "IntelligentStrategy",
                  "EnhancedConfirmationStrategy", "ConfirmationStrategy"}

\* unknown names are skipped; an empty selection yields the default list
create_custom_strategy_context(strategy_names) ==
    LET known(name) == name \in StrategyNames
        selected == SelectSeq(strategy_names, known)
    IN IF selected = <<>> THEN _create_ordered_strategies ELSE selected

CustomStrategyNames ==
    { <<>>,
      <<"UnknownStrategy">>,
      <<"AutoRegistrationStrategy">>,
      <<"AutoRegistrationStrategy", "UnknownStrategy", "ConfirmationStrategy">>,
      <<"AutoRegistrationStrategy", "EnhancedConfirmationStrategy">>,
      <<"ConfirmationStrategy", "AutoRegistrationStrategy">> }

CustomMessages == { <<"j_saku", "j_hi", "j_bou", "j_jo">> }

InitCustom ==
    /\ NoRetry
    /\ pc = "received"
    /\ validator = "v1"
    /\ message \in CustomMessages
    /\ user_id \in UserIds
    /\ extracted_info = <<>>
    /\ validation_result = <<>>
    /\ work_logs = <<>>
    /\ called = <<>>
    /\ delegated = <<>>
    /\ analyze_calls = 0
    /\ faults = {}
    /\ result = <<>>
    /\ \E strategy_names \in CustomStrategyNames :
          strategy_context = create_custom_strategy_context(strategy_names)

SpecCustom == InitCustom /\ [][Next]_vars

(***************************************************************************)
(* Reads of a reference collection by concurrent tasks: through the        *)
(* MasterDataResolver of the first validator (services/                    *)
(* master_data_resolver.py, one instance per service provider) and through *)
(* the MasterDataGateway of the second (gateways/master_data_gateway.py).  *)
(* A task is suspended at the awaits of the storage read, where the other  *)
(* task may run.                                                           *)
(***************************************************************************)
Datasets == {"fields", "crops", "materials"}
Instants == {1000, 1100, 1299, 1300, 1600}
Contents == {"s1", "s2"}

\* _get_fields_data / _get_crops_data / _get_materials_data up to the first
\* await: the cached list when the cache is fresh, else the read begins
ResolverGetData(r) ==
    /\ readers[r].pc \in {"idle", "done"}
    /\ LET current_time == now
       IN IF cache # <<>> /\ current_time - cache_time < cache_timeout
          THEN readers' = [readers EXCEPT ![r] =
                              [pc |-> "done", component |-> "resolver",
                               current_time |-> 0, returned |-> cache,
                               raised |-> FALSE]]
          ELSE readers' = [readers EXCEPT ![r] =
                              [pc |-> "reading", component |-> "resolver",
                               current_time |-> current_time, returned |-> <<>>,
                               raised |-> FALSE]]
    /\ UNCHANGED <<now, dataset, cache, cache_time, storage, gateway_loaded,
                   outside_cache>>

\* get_client / get_collection / find(...).to_list return, or one raises
ResolverStore(r) ==
    /\ readers[r].pc = "reading"
    /\ readers[r].component = "resolver"
    /\ \E read_ok \in BOOLEAN :
          IF read_ok
          THEN /\ cache' = <<storage>>
               /\ cache_time' = readers[r].current_time
               /\ readers' = [readers EXCEPT ![r].pc = "done",
                                              ![r].current_time = 0,
                                              ![r].returned = <<storage>>]
          ELSE /\ readers' = [readers EXCEPT ![r].pc = "done",
                                              ![r].current_time = 0,
                                              ![r].raised = TRUE]
               /\ UNCHANGED <<cache, cache_time>>
    /\ UNCHANGED <<now, dataset, storage, gateway_loaded, outside_cache>>

\* get_all_fields / get_all_crops / get_all_materials up to the first await
GatewayGetAll(r) ==
    /\ readers[r].pc \in {"idle", "done"}
    /\ readers' = [readers EXCEPT ![r] =
                       [pc |-> "reading", component |-> "gateway",
                        current_time |-> now, returned |-> <<>>, raised |-> FALSE]]
    /\ UNCHANGED <<now, dataset, cache, cache_time, storage, gateway_loaded,
                   outside_cache>>

\* the gateway's read returns the documents, or raises after its retries
GatewayReturn(r) ==
    /\ readers[r].pc = "reading"
    /\ readers[r].component = "gateway"
    /\ \E read_ok \in BOOLEAN :
          IF read_ok
          THEN /\ gateway_loaded' = <<[at |-> readers[r].current_time,
                                       snapshot |-> storage]>>
               /\ readers' = [readers EXCEPT ![r].pc = "done",
                                              ![r].current_time = 0,
                                              ![r].returned = <<storage>>]
          ELSE /\ readers' = [readers EXCEPT ![r].pc = "done",
                                              ![r].current_time = 0,
                                              ![r].raised = TRUE]
               /\ UNCHANGED gateway_loaded
    /\ UNCHANGED <<now, dataset, cache, cache_time, storage, outside_cache>>

\* time passes
Tick ==
    /\ \E t \in Instants : t > now /\ now' = t
    /\ UNCHANGED <<dataset, cache, cache_time, storage, readers, gateway_loaded,
                   outside_cache>>

\* somebody edits the collection
StorageUpdate ==
    /\ storage = "s1"
    /\ storage' = "s2"
    /\ UNCHANGED <<now, dataset, cache, cache_time, readers, gateway_loaded,
                   outside_cache>>

InitCache ==
    /\ NoSubmission
    /\ NoInference
    /\ NoMatchCall
    /\ user_choice = ""
    /\ confirm_result = <<>>
    /\ retry_pc = "idle"
    /\ retry_policy = quick_retry
    /\ attempt = 0
    /\ invocations = <<>>
    /\ waits = <<>>
    /\ now = 1000
    /\ dataset \in Datasets
    /\ cache = <<>>
    /\ cache_time = 0
    /\ storage = "s1"
    /\ readers = [r \in Readers |-> IdleReader]
    /\ gateway_loaded = <<>>

NextCache ==
    \/ \E r \in Readers : ResolverGetData(r)
    \/ \E r \in Readers : ResolverStore(r)
    \/ \E r \in Readers : GatewayGetAll(r)
    \/ \E r \in Readers : GatewayReturn(r)
    \/ Tick
    \/ StorageUpdate

SpecCache == InitCache /\ [][NextCache]_vars

\* the last successful load of the dataset by a component: start time and
\* content (<<>> before the first)
Loaded(component) ==
    IF component = "resolver"
    THEN IF cache = <<>> THEN <<>>
         ELSE <<[at |-> cache_time, snapshot |-> cache[1]]>>
    ELSE gateway_loaded

(***************************************************************************)
(* Cancellation of the task that runs register_work_log.  asyncio raises   *)
(* CancelledError at the await the task is suspended in; it is not an      *)
(* Exception, so none of the "except Exception" handlers of the agent, the *)
(* strategies or async_retry catches it and no value is returned.  An      *)
(* insert_one already handed to the driver is not recalled by it.          *)
(***************************************************************************)
CancelMessages == {<<"j_saku", "j_hi", "j_bou", "j_jo">>}

InitCancel ==
    /\ NoRetry
    /\ pc = "received"
    /\ validator \in {"v1", "v2"}
    /\ message \in CancelMessages
    /\ user_id \in UserIds
    /\ extracted_info = <<>>
    /\ validation_result = <<>>
    /\ work_logs = <<>>
    /\ called = <<>>
    /\ delegated = <<>>
    /\ analyze_calls = 0
    /\ faults = {}
    /\ result = <<>>
    /\ strategy_context = _create_ordered_strategies

\* cancelled while call_function_calling (or a sleep of its retry) is pending
CancelDuringExtraction ==
    /\ pc = "received"
    /\ pc' = "cancelled"
    /\ faults' = faults \cup {"cancelled_in_extraction"}
    /\ UNCHANGED <<validator, message, user_id, extracted_info, validation_result,
                   work_logs, called, delegated, analyze_calls, result,
                   strategy_context, outside_pipeline>>

\* cancelled while a read of fields, crops or materials is pending
CancelDuringLookup ==
    /\ pc = "extracted"
    /\ pc' = "cancelled"
    /\ faults' = faults \cup {"cancelled_in_lookup"}
    /\ UNCHANGED <<validator, message, user_id, extracted_info, validation_result,
                   work_logs, called, delegated, analyze_calls, result,
                   strategy_context, outside_pipeline>>

\* cancelled while the first analyze_context call of the selected strategy
\* is pending
CancelDuringAnalysis ==
    /\ pc = "validated"
    /\ LET strategy == SelectedStrategy(strategy_context, extracted_info[1],
                                        validation_result[1])
       IN /\ strategy \in {"IntelligentStrategy", "EnhancedConfirmationStrategy"}
          /\ called' = Append(called, strategy)
    /\ analyze_calls' = analyze_calls + 1
    /\ pc' = "cancelled"
    /\ faults' = faults \cup {"cancelled_in_analysis"}
    /\ UNCHANGED <<validator, message, user_id, extracted_info, validation_result,
                   work_logs, delegated, result, strategy_context, outside_pipeline>>

\* cancelled while insert_one of _save_work_log is pending: the strategy ran
\* up to the insert; the driver has carried the write out or has not
CancelDuringInsert ==
    /\ pc = "validated"
    /\ LET info == extracted_info[1]
           verdict == validation_result[1]
           strategy == SelectedStrategy(strategy_context, info, verdict)
           outcomes == {execute_best_strategy(strategy_context, info, verdict,
                                              message, user_id, work_logs, env) :
                           env \in {e \in Environments(strategy) : e.storage_ok}}
       IN \E outcome \in outcomes, written \in BOOLEAN :
             /\ outcome.work_logs # work_logs
             /\ called' = Append(called, strategy)
             /\ delegated' = delegated \o outcome.delegated
             /\ analyze_calls' = analyze_calls + outcome.analyze_calls
             /\ work_logs' = IF written THEN outcome.work_logs ELSE work_logs
    /\ pc' = "cancelled"
    /\ faults' = faults \cup {"cancelled_in_insert"}
    /\ UNCHANGED <<validator, message, user_id, extracted_info, validation_result,
                   result, strategy_context, outside_pipeline>>

NextCancel ==
    \/ Next
    \/ CancelDuringExtraction
    \/ CancelDuringLookup
    \/ CancelDuringAnalysis
    \/ CancelDuringInsert

SpecCancel == InitCancel /\ [][NextCancel]_vars

(***************************************************************************)
(* IntelligentStrategy._execute_inferred_registration on an analysis that  *)
(* carries inferred values (strategies/intelligent_strategy.py)            *)
(***************************************************************************)
InferenceRecords ==
    { [work_date |-> <<"j_saku", "j_hi">>, field_name |-> <<"A", "j_hatake">>,
       crop_name |-> <<"k_to", "k_ma", "k_to">>, work_category |-> w,
       materials |-> <<>>, quantity |-> q, unit |-> <<>>, work_count |-> n,
       notes |-> t, confidence_score |-> c] :
        w \in {<<>>, <<"shukaku">>}, q \in {<<>>, <<0>>, <<500>>},
        n \in {<<>>, <<0>>}, t \in {<<>>, <<"memo">>}, c \in {0, 5000} }

\* a value for every key an inference may name; "weather" is no field of
\* the record
InferredValues ==
    [quantity |-> <<20>>, work_count |-> <<2>>, work_category |-> <<"bojo">>,
     notes |-> <<"suisoku">>, confidence_score |-> 9000, weather |-> <<"hare">>]

InferenceMaps ==
    { [key \in keys |-> InferredValues[key]] : keys \in SUBSET DOMAIN InferredValues }

InitInfer ==
    /\ NoReaders
    /\ NoMatchCall
    /\ user_choice = ""
    /\ confirm_result = <<>>
    /\ retry_pc = "idle"
    /\ retry_policy = quick_retry
    /\ attempt = 0
    /\ invocations = <<>>
    /\ waits = <<>>
    /\ pc = "analysed"
    /\ validator = "v1"
    /\ message = <<"j_saku", "j_hi", "j_bou", "j_jo">>
    /\ user_id \in UserIds
    /\ \E info \in InferenceRecords :
          /\ extracted_info = <<info>>
          /\ validation_result =
                 <<validate_work_log(validator, info,
                                     [fields |-> TRUE, crops |-> TRUE,
                                      materials |-> TRUE])>>
    /\ work_logs = <<>>
    /\ called = <<>>
    /\ delegated = <<>>
    /\ analyze_calls = 1
    /\ faults = {}
    /\ result = <<>>
    /\ strategy_context = _create_ordered_strategies
    /\ inference_map \in InferenceMaps
    /\ updated_data = <<>>

InferredRegistration ==
    /\ pc = "analysed"
    /\ \E storage_ok \in BOOLEAN :
          LET info == extracted_info[1]
              verdict == validation_result[1]
              context_analysis ==
                  [_parse_llm_response({"auto_register_inferred"}, verdict)
                      EXCEPT !.missing_info_inference = <<inference_map>>]
              env == [storage_ok |-> storage_ok, llm1 |-> QuietLLM, llm2 |-> QuietLLM]
              outcome == _execute_inferred_registration(info, verdict, message,
                                                        user_id, work_logs, env,
                                                        context_analysis)
          IN /\ updated_data' = <<InferredInfo(info, context_analysis)>>
             /\ work_logs' = outcome.work_logs
             /\ delegated' = delegated \o outcome.delegated
             /\ result' = outcome.result
             /\ faults' = faults \cup StorageFaults(env)
    /\ called' = <<"IntelligentStrategy">>
    /\ pc' = "done"
    /\ UNCHANGED <<validator, message, user_id, extracted_info, validation_result,
                   analyze_calls, strategy_context, inference_map, retry_vars,
                   confirm_vars, cache_vars, match_vars>>

NextInfer == InferredRegistration

SpecInfer == InitInfer /\ [][NextInfer]_vars

(***************************************************************************)
(* One reference lookup on its own: a field name is matched against a      *)
(* fields list by MasterDataMatcher.match_field_data and by the resolver's *)
(* _multi_stage_field_matching.                                            *)
(***************************************************************************)
MatchInputs ==
    { <<>>, <<"A", "j_hatake">>, <<"j_hatake">>, <<"a", "j_hatake">>, <<"X", "j_ta">>,
      <<"T", "1">>, <<"t", "1">>, <<"T">> }

\* a list in which one field's name is another field's code
clashing_fields ==
    << [id |-> "F1", name |-> <<"T", "1">>, field_code |-> <<"X", "9">>],
       [id |-> "F2", name |-> <<"B", "j_hatake">>, field_code |-> <<"T", "1">>] >>

MatchMasters == { <<>>, <<fields_master[1]>>, fields_master, clashing_fields }

InitMatch ==
    /\ NoSubmission
    /\ NoReaders
    /\ NoInference
    /\ user_choice = ""
    /\ confirm_result = <<>>
    /\ retry_pc = "idle"
    /\ retry_policy = quick_retry
    /\ attempt = 0
    /\ invocations = <<>>
    /\ waits = <<>>
    /\ \E extracted_name \in MatchInputs, master_fields \in MatchMasters :
          match_call = [extracted_name |-> extracted_name,
                        master_fields |-> master_fields,
                        matched |-> <<>>, resolved |-> <<>>]

MatchFieldData ==
    /\ match_call # <<>>
    /\ match_call.matched = <<>>
    /\ match_call' =
           [match_call EXCEPT
               !.matched = <<match_field_data(match_call.extracted_name,
                                              match_call.master_fields)>>]
    /\ UNCHANGED <<pipeline_vars, retry_vars, confirm_vars, cache_vars, infer_vars>>

MultiStageFieldMatching ==
    /\ match_call # <<>>
    /\ match_call.resolved = <<>>
    /\ match_call' =
           [match_call EXCEPT
               !.resolved = <<_multi_stage_field_matching(match_call.extracted_name,
                                                          match_call.master_fields)>>]
    /\ UNCHANGED <<pipeline_vars, retry_vars, confirm_vars, cache_vars, infer_vars>>

NextMatch == MatchFieldData \/ MultiStageFieldMatching

SpecMatch == InitMatch /\ [][NextMatch]_vars

(***************************************************************************)
(* Properties                                                              *)
(***************************************************************************)

\* C1: the context executes exactly one strategy per submission, the first
\* of its ordered list whose can_handle is true; no later strategy of the
\* list is executed by the context.
C1_FirstMatchExecutes ==
    LET strategies == _create_ordered_strategies
    IN /\ pc # "done" => called = <<>>
       /\ pc = "done" =>
            \E i \in 1..Len(strategies) :
               /\ can_handle(strategies[i], extracted_info[1], validation_result[1])
               /\ \A j \in 1..(i - 1) :
                     ~can_handle(strategies[j], extracted_info[1], validation_result[1])
               /\ called = <<strategies[i]>>

\* a submission two later strategies could also handle went to the first
C1_Witness ==
    /\ pc = "done"
    /\ called = <<"IntelligentStrategy">>
    /\ EnhancedConfirmation_can_handle(extracted_info[1], validation_result[1])

C3_AutoIffThreeConditions ==
    pc \in {"validated", "done"} =>
        (Auto_can_handle(extracted_info[1], validation_result[1])
         <=> /\ validation_result[1].is_valid
             /\ extracted_info[1].confidence_score >= 8000
             /\ Len(validation_result[1].missing_info) <= 1)

\* C3 (amended): the Automatic strategy handles a submission exactly when,
\* in addition to the three conditions, the record has a work category and
\* a field (as text or as a resolved field).
C3_AutoIffThreeConditionsAndEssentials ==
    pc \in {"validated", "done"} =>
        (Auto_can_handle(extracted_info[1], validation_result[1])
         <=> /\ validation_result[1].is_valid
             /\ extracted_info[1].confidence_score >= 8000
             /\ Len(validation_result[1].missing_info) <= 1
             /\ extracted_info[1].work_category # <<>>
             /\ \/ extracted_info[1].field_name # <<>>
                \/ validation_result[1].field_validation.matched # <<>>)

\* the three conditions hold but the record has no work category, and the
\* submission was not registered automatically
C3_Witness ==
    /\ pc = "done"
    /\ validation_result[1].is_valid
    /\ extracted_info[1].confidence_score >= 8000
    /\ Len(validation_result[1].missing_info) <= 1
    /\ extracted_info[1].work_category = <<>>
    /\ called # <<"AutoRegistrationStrategy">>

\* C4: when the storage write of an automatic or contextual-judgment commit
\* fails, the submission's result is the confirmation payload
\* (requires_confirmation = true), not an error result.
C4_StorageFailureFallsBackToConfirmation ==
    (pc = "done" /\ "storage" \in faults) =>
        /\ result[1].success
        /\ ~result[1].error
        /\ result[1].requires_confirmation
        /\ result[1].confirmation_data # <<>>

\* C5: a result carrying a log_id implies success and exactly one inserted
\* record with that log_id; no result carries one after a failed insert.
C5_LogIdImpliesInserted ==
    /\ pc # "done" => result = <<>>
    /\ pc = "done" /\ result[1].log_id # <<>> =>
          /\ result[1].success
          /\ "storage" \notin faults
          /\ Cardinality({i \in 1..Len(work_logs) :
                             work_logs[i].log_id = result[1].log_id[1]}) = 1
    /\ pc = "done" /\ result[1].success /\ "storage" \in faults =>
          result[1].log_id = <<>> /\ work_logs = <<>>

\* a contextual-judgment submission was committed and returned its id
C5_Witness ==
    /\ pc = "done"
    /\ called = <<"IntelligentStrategy">>
    /\ result[1].success
    /\ result[1].log_id # <<>>

LookupKinds == {"db_fields", "db_crops", "db_materials"}

\* C6: when the extraction gateway call fails after its retries or returns
\* no tool call, extract_work_information returns the local fallback record
\* with confidence 0.3 instead of raising, and the submission goes to the
\* Confirmation strategy with no record persisted, whatever date or work
\* category the fallback extracted.
C6_GatewayFailureRoutesToConfirmation ==
    (faults \cap {"gateway_raised", "gateway_empty"} # {}) =>
        /\ pc # "received"
        /\ extracted_info[1] = _fallback_extraction(message)
        /\ extracted_info[1].confidence_score = 3000
        /\ pc = "done" =>
              /\ called = <<"ConfirmationStrategy">>
              /\ delegated = <<>>
              /\ work_logs = <<>>
              /\ result[1].success
              /\ ~result[1].error
              /\ result[1].requires_confirmation
              /\ result[1].strategy_used = "ConfirmationStrategy"
              /\ result[1].log_id = <<>>

\* the gateway raised, the fallback found both a date and a work category,
\* and the submission was handled to the end
C6_Witness ==
    /\ pc = "done"
    /\ "gateway_raised" \in faults
    /\ extracted_info[1].work_date # <<>>
    /\ extracted_info[1].work_category # <<>>
    /\ result[1].requires_confirmation

\* C7: when the read of one kind of master data fails while the reads of
\* the other kinds succeed, the verdict still reports the other kinds'
\* matches, reports the failed kind as no-match, and validate_work_log does
\* not raise.  (Version 2 reads fields, crops and materials one after the
\* other, so only a failed materials read leaves the other reads completed.)
C7_OneKindLookupFailureTolerated ==
    \A kind \in LookupKinds :
        ( /\ pc \in {"validated", "done"}
          /\ faults \cap LookupKinds = {kind}
          /\ validator = "v2" => kind = "db_materials" ) =>
            LET verdict == validation_result[1]
                healthy == validate_work_log(validator, extracted_info[1],
                                             [fields |-> TRUE, crops |-> TRUE,
                                              materials |-> TRUE])
                materials_matched(v) ==
                    [i \in 1..Len(v.material_validation) |->
                        v.material_validation[i].matched]
            IN /\ kind # "db_fields" =>
                     verdict.field_validation.matched
                         = healthy.field_validation.matched
               /\ kind # "db_crops" =>
                     verdict.crop_validation.matched
                         = healthy.crop_validation.matched
               /\ kind # "db_materials" =>
                     materials_matched(verdict) = materials_matched(healthy)
               /\ kind = "db_fields" => verdict.field_validation.matched = <<>>
               /\ kind = "db_crops" => verdict.crop_validation.matched = <<>>
               /\ kind = "db_materials" =>
                     \A i \in 1..Len(verdict.material_validation) :
                        verdict.material_validation[i].matched = <<>>

\* C8: a verdict is valid only if a field is resolved, or a crop and at
\* least one material are resolved.
C8_ValidOnlyWithMinimumEntities ==
    (pc \in {"validated", "done"} /\ validation_result[1].is_valid) =>
        LET verdict == validation_result[1]
        IN \/ verdict.field_validation.matched # <<>>
           \/ /\ verdict.crop_validation.matched # <<>>
              /\ \E i \in 1..Len(verdict.material_validation) :
                    verdict.material_validation[i].matched # <<>>

\* C9: when the analysis of the contextual-judgment strategy fails (its LLM
\* call raises, or the decision service is unavailable), the strategy
\* returns the result of ConfirmationStrategy (requires_confirmation = true)
\* and no record is persisted; when the analysis run by the enhanced
\* confirmation it delegated to fails, the result still requires
\* confirmation and no record is persisted.
C9_AnalysisFailureFallsBackToConfirmation ==
    (pc = "done" /\ called = <<"IntelligentStrategy">>) =>
        /\ faults \cap {"analysis", "analysis_service"} # {} =>
              /\ result[1].success
              /\ ~result[1].error
              /\ result[1].requires_confirmation
              /\ result[1].strategy_used = "ConfirmationStrategy"
              /\ result[1].confirmation_data # <<>>
              /\ result[1].log_id = <<>>
              /\ work_logs = <<>>
        /\ faults \cap {"nested_analysis", "nested_analysis_service"} # {} =>
              /\ result[1].success
              /\ result[1].requires_confirmation
              /\ result[1].strategy_used \in {"ConfirmationStrategy",
                                              "EnhancedConfirmationStrategy"}
              /\ result[1].log_id = <<>>
              /\ work_logs = <<>>

\* the LLM call of the contextual-judgment strategy's own analysis raised
C9_Witness ==
    /\ pc = "done"
    /\ called = <<"IntelligentStrategy">>
    /\ "analysis" \in faults
    /\ analyze_calls = 1
    /\ result[1].requires_confirmation

\* C10: a step in which ConfirmationStrategy.execute produces the result
\* leaves the work_logs collection as it was; the result is successful, has
\* requires_confirmation = true, carries the confirmation payload (message,
\* options, extracted record, verdict, original message, user id) and no
\* record id.
C10_ConfirmationExecuteWritesNothing ==
    [][ (pc' = "done" /\ result'[1].strategy_used = "ConfirmationStrategy") =>
           /\ work_logs' = work_logs
           /\ result'[1].success
           /\ result'[1].requires_confirmation
           /\ result'[1].log_id = <<>>
           /\ result'[1].confirmation_data # <<>>
           /\ LET confirmation_data == result'[1].confirmation_data[1]
              IN /\ confirmation_data.message \in {"final_confirmation",
                                                    "ambiguity_resolution"}
                 /\ confirmation_data.options # <<>>
                 /\ confirmation_data.extracted_info = extracted_info[1]
                 /\ confirmation_data.validation_result = validation_result[1]
                 /\ confirmation_data.original_message = message
                 /\ confirmation_data.user_id = user_id ]_vars

\* ConfirmationStrategy was selected and returned its payload for a record
\* that names a field
C10_Witness ==
    /\ pc = "done"
    /\ called = <<"ConfirmationStrategy">>
    /\ extracted_info[1].field_name # <<>>
    /\ result[1].confirmation_data # <<>>
    /\ result[1].confirmation_data[1].options # <<>>

\* C11: execute_best_strategy routes a submission to the contextual-judgment
\* strategy exactly when its verdict is valid, 0.4 <= confidence < 0.8 and
\* one or two items are missing.
C11_IntelligentRegion ==
    pc = "done" =>
        (called = <<"IntelligentStrategy">>
         <=> /\ validation_result[1].is_valid
             /\ 4000 <= extracted_info[1].confidence_score
             /\ extracted_info[1].confidence_score < 8000
             /\ Len(validation_result[1].missing_info) \in {1, 2})

\* a submission of the region that the enhanced confirmation strategy could
\* not have handled went to the contextual-judgment strategy
C11_Witness ==
    /\ pc = "done"
    /\ called = <<"IntelligentStrategy">>
    /\ extracted_info[1].confidence_score >= 7000
    /\ Len(validation_result[1].missing_info) = 2

\* C12: when no strategy of the context's list can handle the submission,
\* the strategy executed is ConfirmationStrategy and nothing is persisted,
\* for the default list and for every custom list.
C12_FallbackIsConfirmation ==
    ( /\ pc = "done"
      /\ \A i \in 1..Len(strategy_context) :
            ~can_handle(strategy_context[i], extracted_info[1],
                        validation_result[1]) ) =>
        /\ called = <<"ConfirmationStrategy">>
        /\ work_logs = <<>>

\* C13: a call wrapped by async_retry with max_retries = N invokes the
\* operation at most N + 1 times (4 under gemini_retry, 3 under
\* mongodb_retry), returns at the first success without a further attempt,
\* sleeps only between two attempts, and raises after N + 1 failures.
C13_AtMostNPlusOneAttempts ==
    LET n == Len(invocations)
        failed(i) == invocations[i] = "failed"
    IN /\ n <= retry_policy.max_retries + 1
       /\ retry_policy = gemini_retry => n <= 4
       /\ retry_policy = mongodb_retry => n <= 3
       /\ \A i \in 1..(n - 1) : failed(i)
       /\ retry_pc = "returned" => n >= 1 /\ invocations[n] = "ok" /\ Len(waits) = n - 1
       /\ retry_pc = "raised" =>
             /\ n = retry_policy.max_retries + 1
             /\ failed(n)
             /\ Len(waits) = n - 1
       /\ retry_pc = "sleeping" => n = Len(waits) /\ failed(n)
                                    /\ n <= retry_policy.max_retries
       /\ retry_pc = "attempt" => n = Len(waits) /\ n = attempt

\* the extraction call failed four times and the wrapper raised
C13_Witness ==
    /\ retry_pc = "raised"
    /\ retry_policy = gemini_retry
    /\ Len(invocations) = 4
    /\ Len(waits) = 3

\* C14: register_work_log never raises to its caller: whatever fails in
\* extraction, validation, strategy execution or storage, and also for an
\* empty message, it returns a result that contains a success flag.
C14_AlwaysReturnsResult ==
    pc = "done" =>
        /\ result # <<>>
        /\ result[1].success \in BOOLEAN
        /\ ~result[1].success => result[1].error

\* the insert of an automatic registration raised and the agent returned
\* its error result
C14_Witness ==
    /\ pc = "done"
    /\ called = <<"AutoRegistrationStrategy">>
    /\ "storage" \in faults
    /\ result # <<>>
    /\ ~result[1].success

\* C15: a submission with an empty message is rejected with a validation
\* error before the extractor, the validator, a strategy or storage is
\* called.
C15_EmptyMessageRejected ==
    message = <<>> =>
        /\ extracted_info = <<>>
        /\ validation_result = <<>>
        /\ called = <<>>
        /\ work_logs = <<>>
        /\ result # <<>> => ~result[1].success /\ result[1].error

\* C16: confirm_and_register called with the payload of a deferred
\* confirmation and the choice confirm_registration inserts exactly one
\* record built from the payload (user id, original message, resolved
\* entity ids of the verdict) and returns success = true with its id.
C16_ConfirmRegistrationInserts ==
    (pc = "confirmed" /\ user_choice = "confirm_registration") =>
        /\ confirm_result[1].success
        /\ confirm_result[1].log_id # <<>>
        /\ Len(work_logs) = 1
        /\ work_logs[1].log_id = confirm_result[1].log_id[1]
        /\ work_logs[1].user_id = user_id
        /\ work_logs[1].original_message = message
        /\ LET built == WorkLogRecord(extracted_info[1], validation_result[1],
                                      message, user_id, work_logs[1].log_id)
           IN /\ work_logs[1].extracted_data.field_id = built.extracted_data.field_id
              /\ work_logs[1].extracted_data.crop_id = built.extracted_data.crop_id
              /\ work_logs[1].extracted_data.material_ids
                     = built.extracted_data.material_ids

\* the ids of the matched entries of a verdict's material list, in order
BestMaterialIds(verdict) ==
    LET matched(entry) == entry.matched # <<>>
        validated_materials == SelectSeq(verdict.material_validation, matched)
    IN [i \in 1..Len(validated_materials) |-> validated_materials[i].matched[1].id]

MasterNames(master) == {master[i].name : i \in 1..Len(master)}

\* a submission whose record names date, field, crop, category, material,
\* quantity and unit, with field, crop and every material spelled exactly as
\* a reference document, processed without any failure
CompleteExactSubmission ==
    /\ pc = "done"
    /\ faults = {}
    /\ extracted_info[1].work_date # <<>>
    /\ extracted_info[1].field_name \in MasterNames(fields_master)
    /\ extracted_info[1].crop_name \in MasterNames(crops_master)
    /\ extracted_info[1].work_category # <<>>
    /\ extracted_info[1].materials # <<>>
    /\ \A i \in 1..Len(extracted_info[1].materials) :
           extracted_info[1].materials[i] \in MasterNames(materials_master)
    /\ extracted_info[1].quantity # <<>>
    /\ extracted_info[1].unit # <<>>

C19_CachedWithinTTL ==
    [][\A r \in Readers :
          LET component == readers'[r].component
              starts == readers[r].pc # "reading" /\ readers'[r] # readers[r]
              loaded == Loaded(component)
          IN /\ (starts /\ loaded # <<>> /\ now - loaded[1].at < cache_timeout) =>
                    /\ readers'[r].pc = "done"
                    /\ readers'[r].returned = <<loaded[1].snapshot>>
             /\ (starts /\ loaded # <<>> /\ now - loaded[1].at >= cache_timeout) =>
                    readers'[r].pc = "reading"
             /\ ( /\ readers[r].pc = "reading"
                  /\ readers'[r].pc = "done"
                  /\ ~readers'[r].raised ) =>
                    Loaded(readers[r].component)' =
                                          <<[at |-> readers[r].current_time,
                                            snapshot |-> readers'[r].returned[1]]>>
      ]_vars

\* C20: at most one storage refresh of the resolver's cache is in flight at
\* any time; a reader that arrives during a refresh starts no read of its
\* own.
C20_SingleRefreshInFlight ==
    Cardinality({r \in Readers : /\ readers[r].pc = "reading"
                                 /\ readers[r].component = "resolver"}) <= 1

\* C21: a submission cancelled while one of its external calls (extraction,
\* reference-data read, context reasoning, storage write) is pending leaves
\* no record, wherever the cancellation strikes.
C21_CancelledSubmissionPersistsNothing ==
    pc = "cancelled" => work_logs = <<>>

C24_ConfirmationCarriesReasoning ==
    ( /\ pc = "done"
      /\ called = <<"IntelligentStrategy">>
      /\ faults = {}
      /\ \A i \in 1..Len(delegated) : delegated[i] # "AutoRegistrationStrategy" ) =>
        /\ work_logs = <<>>
        /\ result[1].requires_confirmation
        /\ result[1].confirmation_data # <<>>
        /\ result[1].confirmation_data[1].llm_analysis # <<>>

\* C25: in every match result the ambiguity flag is true exactly when there
\* are at least two candidates and the two highest scores differ by less
\* than 0.1; with no candidate or one candidate it is false, and for an
\* empty name or an empty master list the result is no-match with an empty
\* candidate list.
C25_AmbiguityIffTopTwoWithinTenth ==
    (match_call # <<>> /\ match_call.matched # <<>>) =>
        LET returned == match_call.matched[1]
            degenerate == \/ match_call.extracted_name = <<>>
                          \/ match_call.master_fields = <<>>
            matches == IF degenerate THEN <<>>
                       ELSE field_matches(match_call.extracted_name,
                                          match_call.master_fields)
            sorted_matches == SortedByConfidence(matches)
            within_tenth ==
                /\ Len(matches) >= 2
                /\ FracLt(FracSub(sorted_matches[1].confidence,
                                  sorted_matches[2].confidence), Frac(1, 10))
        IN /\ returned.ambiguity_detected = within_tenth
           /\ Len(matches) <= 1 => ~returned.ambiguity_detected
           /\ degenerate => /\ returned.match_quality = "no_match"
                             /\ returned.candidates = <<>>
                             /\ returned.matched = <<>>

\* C26: when the normalized input equals a name-bearing field of a candidate
\* (its name or its field code), the lookup returns such a candidate as best
\* match with confidence 1.0 and exact quality, whatever the other
\* candidates score.
C26_EqualNameIsExactMatch ==
    match_call # <<>> =>
        LET normalized_input == _normalize_text(match_call.extracted_name)
            master_fields == match_call.master_fields
            equal_ids == {master_fields[i].id : i \in
                             {j \in 1..Len(master_fields) :
                                 \/ _normalize_text(master_fields[j].name) = normalized_input
                                 \/ _normalize_text(master_fields[j].field_code)
                                        = normalized_input}}
        IN (normalized_input # <<>> /\ equal_ids # {}) =>
              /\ match_call.matched # <<>> =>
                     LET returned == match_call.matched[1]
                     IN /\ returned.matched # <<>>
                        /\ returned.matched[1].id \in equal_ids
                        /\ returned.matched[1].confidence = One
                        /\ returned.match_quality = "exact"
              /\ match_call.resolved # <<>> =>
                     /\ match_call.resolved[1].id \in equal_ids
                     /\ match_call.resolved[1].confidence = One
                     /\ match_call.resolved[1].method = "exact_match"

\* C27: with the default strategy list, every record inserted into work_logs
\* during register_work_log belongs to a submission whose verdict is valid,
\* whose confidence is at least 0.4 and whose verdict lists at most two
\* missing items; a submission with an invalid verdict or a confidence
\* below 0.4 stores nothing.
C27_StoredOnlyForValidConfidentSubmission ==
    work_logs # <<>> =>
        /\ extracted_info # <<>> /\ validation_result # <<>>
        /\ validation_result[1].is_valid = TRUE
        /\ extracted_info[1].confidence_score >= 4000
        /\ Len(validation_result[1].missing_info) <= 2

\* a record stored through the contextual judgment for a submission of
\* medium confidence with two missing items
C27_Witness ==
    /\ pc = "done"
    /\ work_logs # <<>>
    /\ called = <<"IntelligentStrategy">>
    /\ extracted_info[1].confidence_score < 8000
    /\ Len(validation_result[1].missing_info) = 2

\* C28: within one submission analyze_context is called at most once,
\* whichever action it recommends.
C28_AtMostOneAnalysisPerSubmission == analyze_calls <= 1

\* C29: analyze_context is called only for submissions routed to
\* IntelligentStrategy, that is only when the verdict is valid, the
\* confidence is in [0.4, 0.8) and one or two items are missing; an invalid
\* verdict, no missing item or three or more missing items never lead to a
\* call.
C29_AnalysisOnlyForContextualJudgment ==
    analyze_calls >= 1 =>
        /\ called = <<"IntelligentStrategy">>
        /\ validation_result[1].is_valid = TRUE
        /\ 4000 <= extracted_info[1].confidence_score
        /\ extracted_info[1].confidence_score < 8000
        /\ Len(validation_result[1].missing_info) \in {1, 2}

\* C30: no record is committed by AutoRegistrationStrategy, directly or by
\* delegation from IntelligentStrategy, while the verdict's field or crop
\* match is flagged ambiguous.
C30_NoCommitOnAmbiguousMatch ==
    work_logs # <<>> =>
        /\ ~validation_result[1].field_validation.ambiguity_detected
        /\ ~validation_result[1].crop_validation.ambiguity_detected

====
